---- MODULE Spec2Model ----
(***************************************************************************)
(* Verification model of maxapi (50Bytes-dev/maxapi).                      *)
(*                                                                         *)
(* Part 1 - Session Client (src/maxclient/errors.go, which holds the       *)
(*          Client type): Connect, Close, nextSeq, sendAndWaitWithTimeout  *)
(*          and receiveLoop as interleaved steps of concurrent goroutines. *)
(* Part 2 - Session manager (src/event_handler.go, src/handlers.go,        *)
(*          src/unnamed/part_001): the supervisor goroutine startClient,   *)
(*          the Connect and Disconnect handlers, the ClientManager         *)
(*          registry and the kill channel map, for one tenant.             *)
(* Part 3 - Webhook dispatch (src/event_handler.go): handleEvent,          *)
(*          sendEventWithWebHook, sendToUserWebHook.                       *)
(* Part 4 - SMS authentication (src/handlers.go, src/maxclient/auth.go):   *)
(*          the AuthRequest, AuthConfirm and AuthRegister handlers, the    *)
(*          five-minute timers and the registry entry, for one tenant.     *)
(***************************************************************************)
EXTENDS Integers, Sequences, FiniteSets, TLC

\* ------------------------------------------------------------- bounds ----
\* number of goroutines that call sendAndWait concurrently
NumCallers == 2
\* number of successful dials one Client performs (failed dials are free)
MaxDials == 2
\* number of startClient goroutines spawned for the tenant
MaxSpawns == 2
\* SpecManager: number of consecutive reconnect attempts that may fail
MaxFailures == 1
\* number of notifications the receive loop hands to the event handler
MaxEvents == 3

\* Clients made for the tenant by auth requests and session starts
MaxAuthClients == 2

\* request frames written on one of those Clients
MaxAuthFrames == 4

\* calls of safeDeleteUser for the tenant
MaxDeletes == 2

\* concurrent uploads on one Client, and the asset ids the server hands out
NumUploads == 2
MaxAsset == 2

\* Message events, chats, message ids and the largest history limit
MaxMessages == 4
NumChats == 2
NumMessageIds == 3
MaxHistory == 2

\* width in bits of the user ids GetDialogID is applied to
IdBits == 6

Callers == 1 .. NumCallers
ConnIds == 1 .. MaxDials

\* error values returned by sendAndWaitWithTimeout
ErrNil          == "nil"
ErrNotConnected == "NOT_CONNECTED"
ErrTimeout      == "TIMEOUT"
ErrTransport    == "TRANSPORT"
ErrProtocol     == "PROTOCOL"

VARIABLES
    \* ---- Client fields
    conn,         \* c.conn: 0 is nil, k >= 1 the k-th dialled connection
    connStatus,   \* per connection: "unused" | "open" | "failed" | "closed"
    connMu,       \* "free" | "connect" (Connect holds the write lock while dialling)
    isConnected,  \* c.isConnected
    ctxDone,      \* c.ctx is cancelled (c.cancel() was called on it)
    seq,          \* c.seq (int32)
    pending,      \* c.pending: seq -> the caller owning the response channel
    respCh,       \* per caller: the channel made by its current call
    \* ---- goroutines
    cpc, cseq, cresp, cerr,   \* sendAndWaitWithTimeout callers
    cctx,         \* the context a caller's select waits on: "none" | "cur"
                  \* (it is c.ctx) | "old" (Connect has replaced it since; a
                  \* context is replaced only once it is cancelled)
    sent,         \* per connection: request frames written and not yet answered
    rl,           \* receiveLoop goroutine started by the k-th dial
    connPc,       \* the goroutine calling Connect
    dials,        \* number of successful dials made so far
    closePc,      \* the goroutine calling Close
    \* ---- history (read by the properties only)
    closeSnap,    \* while Close runs: the callers registered in c.pending
                  \* when it was called
    \* ---- session manager, one tenant (userID)
    spc,          \* per startClient goroutine: its position
    reconnectAttempts,   \* per startClient goroutine: its local counter
    cliConnected, \* per startClient goroutine: client.IsConnected() of the
                  \* Client it created
    maxClients,   \* clientManager.maxClients[userID]: 0 is absent, i the
                  \* Client created by goroutine i
    killchannel,  \* killchannel[userID] is present
    dbConnected,  \* users.connected of the tenant's row
    postmap,      \* per startClient goroutine: the last event it passed to
                  \* sendEventWithWebHook
    connectStatus,  \* HTTP status of the last POST /session/connect (0: none)
    \* ---- history (read by the properties only)
    fails,        \* per startClient goroutine: consecutive failed
                  \* connection attempts
    discReq,      \* per startClient goroutine: a disconnect was requested
                  \* while it supervised its session
    \* ---- webhook dispatch, one tenant
    subscriptions,  \* the tenant's cached Events, which every dispatch
                    \* copies into mycli.subscriptions
    webhookurl,   \* the tenant's webhook URL ("" if none)
    produced,     \* event types the receive loop has handed to handleEvent
    hooks,        \* callHook goroutines spawned and not yet run
    posted,       \* POSTs issued to the tenant webhook, in order
    fanout,       \* events handed to sendToGlobalWebHook and sendToGlobalRabbit
    \* ---- SMS authentication, one tenant (txtid)
    aclients,     \* the Clients made for the tenant by AuthRequest and by
                  \* startClient: state "none" | "open" | "closed", the
                  \* request frames written on it, and (history) its ticket:
                  \* "none" | "code" (RequestAuthCode succeeded on it) |
                  \* "register" (SubmitAuthCode got a register token) | "done"
    regClient,    \* clientManager.maxClients[txtid] as the auth handlers see
                  \* it: 0 is absent, c >= 1 the c-th Client
    authTimeouts, \* authTimeouts[txtid]: 0 is absent, t the timer armed by
                  \* the request that made Client t
    timers,       \* per time.AfterFunc timer: "none" | "armed" | "stopped" |
                  \* "fired" (its function is about to run in its own
                  \* goroutine) | "closing" (it has closed and removed the
                  \* registered Client) | "done"
    temp_token,   \* users.temp_token of the tenant's row
    auth_token,   \* users.auth_token of the tenant's row
    response,     \* the last HTTP response of an auth handler
    nclients,     \* number of Clients made so far
    sessionInit,  \* per Client: the outcome of SessionInit on its transport
    starting,     \* the Client startClient is connecting, 0 if none
    \* ---- the tenant's row and its other registrations
    myClients,    \* clientManager.myClients[userID]: 0 is absent, i the
                  \* wrapper made by goroutine i
    httpClients,  \* clientManager.httpClients[userID], likewise
    userRow,      \* the tenant has a row in users
    cacheEntry,   \* userinfocache holds the tenant's token
    logoutHooks,  \* LoggedOut events passed to sendEventWithWebHook
    \* ---- history (read by the properties only)
    killOffers,   \* sends attempted by safeDeleteUser on the kill channel
    deletes,      \* calls of safeDeleteUser made so far
    logoutBy,     \* who deleted the row: "none" | "tenant" | "server"
    \* ---- uploads on the tenant's Client
    fileWaiters,  \* c.fileWaiters: asset id -> 0 (no entry) or u, the
                  \* channel made by upload u
    upc,          \* per upload: "idle" | "post" (waiter registered, the
                  \* HTTP POST not yet answered) | "wait" (in the select) |
                  \* "done"
    ukind,        \* per upload: "none" | "FILE" | "VIDEO"
    fileID,       \* per upload: the asset id of the slot, 0 before
    waiterCh,     \* per upload: responses buffered in its channel (0 or 1)
    uret,         \* per upload: what the call returned
    \* ---- history (read by the properties only)
    uregistered,  \* per upload: registerFileWaiter was called
    waited,       \* per upload: the duration of the timer that ended the
                  \* wait, in seconds, 0 if none did
    arrived,      \* asset ids carried by the attach notifications so far
    \* ---- message history
    message_history, \* the tenant's rows of message_history: chat_id,
                  \* message_id, timestamp
    historyLimit, \* users.history of the tenant, as cached under "History"
    now,          \* time.Now() of the last insert
    nmessages,    \* Message events handled so far
    \* ---- history (read by the properties only)
    lastMessage,  \* the last Message event: chat, message id, has text
    \* ---- a call of GetDialogID
    userID1,      \* first argument
    userID2,      \* second argument
    chatID,       \* the value returned
    dialogDone,   \* the call has returned
    \* ---- a notification of the receive loop
    notifOpcode,  \* resp.Opcode
    notifPayload, \* resp.Payload: whether payload["message"] is an object,
                  \* its "status" (inner) and payload["status"] (outer)
    eventType,    \* event.Type given by handleNotification, "" if no event
                  \* was built
    postType,     \* postmap["type"] passed to sendEventWithWebHook, "" if
                  \* it was not called
    classified,   \* the notification was handled
    notifIds,     \* resp.Payload["fileId"] and ["videoId"], 0 if absent
    \* ---- the tenant's row, as the admin handlers write it
    rowWebhook,   \* users.webhook
    rowEvents,    \* users.events, as a set of types
    accepted,     \* what authalice did with the last request that
                  \* carried the tenant's token: "none" | "next" | "401"
    \* ---- the ping goroutines of the Client
    pingTask,     \* per connection: the goroutine StartPingLoop started
                  \* after it was made: "none" | "run" | "exited"
    writing,      \* the callers inside c.conn.WriteMessage
    \* ---- history (read by the properties only)
    announced     \* per startClient goroutine: the attempts of the current
                  \* outage for which a Reconnecting event was dispatched

clientVars == << conn, connStatus, connMu, isConnected, ctxDone, seq,
                 pending, respCh, cpc, cseq, cctx, cresp, cerr, sent, rl,
                 connPc, dials, closePc, closeSnap >>

mgrVars == << spc, reconnectAttempts, cliConnected, maxClients, killchannel,
              dbConnected, postmap, connectStatus, fails, discReq >>

dispVars == << subscriptions, webhookurl, produced, hooks, posted, fanout >>

authVars == << aclients, regClient, authTimeouts, timers, temp_token,
               auth_token, response, nclients, sessionInit, starting >>

userRest == << userRow, cacheEntry, logoutHooks, killOffers, deletes,
              logoutBy >>

userVars == << myClients, httpClients, userRest >>

uploadVars == << fileWaiters, upc, ukind, fileID, waiterCh, uret,
                 uregistered, waited, arrived >>

historyVars == << message_history, historyLimit, now, nmessages,
                  lastMessage >>

dialogVars == << userID1, userID2, chatID, dialogDone >>

classifyVars == << notifOpcode, notifPayload, eventType, postType,
                   classified, notifIds >>

adminVars == << rowWebhook, rowEvents, accepted >>

pingVars == << pingTask, writing >>

\* what uploads and Message events leave alone beyond the tenant's row
tailVars == << dialogVars, classifyVars, announced, adminVars, pingVars >>

\* what the startClient goroutines leave alone beyond the tenant's row
extRest == << uploadVars, historyVars, dialogVars, classifyVars, adminVars,
             pingVars >>

extVars == << extRest, announced >>

vars == << clientVars, mgrVars, dispVars, authVars, userVars, extVars >>

\* ------------------------------------------------------------ helpers ----
NoChan == [buf |-> << >>, closed |-> FALSE]

\* delete(c.pending, q)
MapDelete(m, q) == [s \in (DOMAIN m) \ {q} |-> m[s]]
\* c.pending[q] = r
MapPut(m, q, r) == [s \in (DOMAIN m) \cup {q} |-> IF s = q THEN r ELSE m[s]]

EmptyMap == [s \in {} |-> 0]

\* sync.WaitGroup counter: receive loops and ping loops started and not
\* finished
wg == Cardinality({k \in ConnIds : rl[k].pc \in {"top", "read"}})
      + Cardinality({k \in ConnIds : pingTask[k] = "run"})

\* a bug: the counter is advanced by the first call only
nextSeqStuck(s) == IF s = 0 THEN 1 ELSE s

\* nextSeq: atomic.AddInt32(&c.seq, 1), with int32 wrap-around
nextSeq(s) == IF s = 2147483647 THEN (-2147483647) - 1 ELSE s + 1

\* ParseError(resp.Payload): non-nil iff the payload carries an error field
ParseError(resp) == resp.payload.error

\* a bug: a nil response (closed channel) is returned as (nil, nil)
RecvOutcomeNilOk(buf) ==
    IF buf = << >> THEN [resp |-> << >>, err |-> ErrNil]
    ELSE IF ParseError(buf[1]) THEN [resp |-> buf, err |-> ErrProtocol]
    ELSE [resp |-> buf, err |-> ErrNil]

\* case resp := <-respCh of the select: the (resp, err) pair returned;
\* buf is << >> when the channel was closed empty (resp == nil)
RecvOutcome(buf) ==
    IF buf = << >> THEN [resp |-> << >>, err |-> ErrNotConnected]
    ELSE IF ParseError(buf[1]) THEN [resp |-> buf, err |-> ErrProtocol]
    ELSE [resp |-> buf, err |-> ErrNil]

\* a bug: the connected flag is not consulted
IsConnectedAlways(flag) == TRUE

\* c.IsConnected(): the flag, read under its lock
IsConnected(flag) == flag

\* a bug: Connect keeps the context it finds, cancelled or not
RenewCtxKeep(done) == done

\* select { case <-c.ctx.Done(): c.ctx, c.cancel = context.WithCancel(...)
\* default: }: whether the context Connect leaves in c.ctx is cancelled
RenewCtx(done) == FALSE

\* a bug: the response is handed to whichever waiter was registered first
PendingLookupFirst(p, q) ==
    IF DOMAIN p = {} THEN << >>
    ELSE << p[CHOOSE s \in DOMAIN p : \A t \in DOMAIN p : s <= t] >>

\* respCh, ok := c.pending[resp.Seq]
PendingLookup(p, q) == IF q \in DOMAIN p THEN << p[q] >> ELSE << >>

\* ------------------------------------------------------------- Init ------
ClientInit ==
    /\ conn = 0
    /\ connStatus = [k \in ConnIds |-> "unused"]
    /\ connMu = "free"
    /\ isConnected = FALSE
    /\ ctxDone = FALSE
    /\ seq = 0
    /\ pending = EmptyMap
    /\ respCh = [r \in Callers |-> NoChan]
    /\ cpc = [r \in Callers |-> "idle"]
    /\ cseq = [r \in Callers |-> 0]
    /\ cctx = [r \in Callers |-> "none"]
    /\ cresp = [r \in Callers |-> << >>]
    /\ cerr = [r \in Callers |-> ErrNil]
    /\ sent = [k \in ConnIds |-> {}]
    /\ rl = [k \in ConnIds |-> [pc |-> "none", conn |-> 0]]
    /\ connPc = "idle"
    /\ dials = 0
    /\ closePc = "idle"
    /\ closeSnap = {}

\* --------------------------------------------------------- Connect -------
\* Connect, up to the dial: takes connMu, closes a dead connection, returns
\* nil when a connection exists, replaces a cancelled context by a new one
ConnectBegin ==
    /\ connPc = "idle"
    /\ connMu = "free"
    /\ LET dead == conn # 0 /\ ~isConnected
           c1   == IF dead THEN 0 ELSE conn
       IN /\ connStatus' = IF dead THEN [connStatus EXCEPT ![conn] = "closed"]
                           ELSE connStatus
          /\ sent' = IF dead THEN [sent EXCEPT ![conn] = {}] ELSE sent
          /\ conn' = c1
          /\ IF c1 # 0
             THEN UNCHANGED << connPc, connMu, ctxDone, cctx >>
             ELSE /\ connPc' = "dial"
                  /\ connMu' = "connect"
                  /\ ctxDone' = RenewCtx(ctxDone)
                  /\ cctx' = [r \in Callers |->
                                IF ctxDone /\ cctx[r] = "cur" THEN "old" ELSE cctx[r]]
    /\ UNCHANGED << isConnected, seq, pending, respCh, cpc, cseq, cresp, cerr,
                    rl, dials, closePc, closeSnap >>
    /\ UNCHANGED << mgrVars, dispVars, authVars, userVars, extVars >>

\* dialer.Dial succeeds: c.conn = conn, setConnected(true), go receiveLoop()
ConnectDialOk ==
    /\ connPc = "dial"
    /\ dials < MaxDials
    /\ LET k == dials + 1
       IN /\ conn' = k
          /\ connStatus' = [connStatus EXCEPT ![k] = "open"]
          /\ rl' = [rl EXCEPT ![k] = [pc |-> "top", conn |-> 0]]
    /\ dials' = dials + 1
    /\ isConnected' = TRUE
    /\ connPc' = "idle"
    /\ connMu' = "free"
    /\ UNCHANGED << ctxDone, seq, pending, respCh, cpc, cseq, cctx,
                    cresp, cerr, sent, closePc, closeSnap >>
    /\ UNCHANGED << mgrVars, dispVars, authVars, userVars, extVars >>

\* dialer.Dial fails: Connect returns the error
ConnectDialFail ==
    /\ connPc = "dial"
    /\ connPc' = "idle"
    /\ connMu' = "free"
    /\ UNCHANGED << conn, connStatus, isConnected, ctxDone, seq, pending,
                    respCh, cpc, cseq, cctx, cresp, cerr, sent, rl, dials,
                    closePc, closeSnap >>
    /\ UNCHANGED << mgrVars, dispVars, authVars, userVars, extVars >>

\* ----------------------------------------------------------- Close -------
\* c.cancel(); c.setConnected(false)
CloseBegin ==
    /\ closePc \in {"idle", "returned"}
    /\ ctxDone' = TRUE
    /\ isConnected' = FALSE
    /\ closeSnap' = {pending[s] : s \in DOMAIN pending}
    /\ closePc' = "lock"
    /\ UNCHANGED << conn, connStatus, connMu, seq, pending, respCh, cpc,
                    cseq, cctx, cresp, cerr, sent, rl, connPc, dials >>
    /\ UNCHANGED << mgrVars, dispVars, authVars, userVars, extVars >>

\* c.connMu.Lock(); if c.conn != nil { c.conn.Close(); c.conn = nil } else return
CloseLock ==
    /\ closePc = "lock"
    /\ connMu = "free"
    /\ IF conn # 0
       THEN /\ connStatus' = [connStatus EXCEPT ![conn] = "closed"]
            /\ sent' = [sent EXCEPT ![conn] = {}]
            /\ conn' = 0
            /\ closePc' = "waitwg"
            /\ UNCHANGED closeSnap
       ELSE /\ closePc' = "returned"
            /\ closeSnap' = {}
            /\ UNCHANGED << conn, connStatus, sent >>
    /\ UNCHANGED << connMu, isConnected, ctxDone, seq, pending, respCh,
                    cpc, cseq, cctx, cresp, cerr, rl, connPc, dials >>
    /\ UNCHANGED << mgrVars, dispVars, authVars, userVars, extVars >>

\* c.wg.Wait(); for seq, ch := range c.pending { close(ch); delete(c.pending, seq) }
CloseDrain ==
    /\ closePc = "waitwg"
    /\ wg = 0
    /\ respCh' = [r \in Callers |->
                    IF \E s \in DOMAIN pending : pending[s] = r
                    THEN [respCh[r] EXCEPT !.closed = TRUE]
                    ELSE respCh[r]]
    /\ pending' = EmptyMap
    /\ closePc' = "returned"
    /\ closeSnap' = {}
    /\ UNCHANGED << conn, connStatus, connMu, isConnected, ctxDone, seq,
                    cpc, cseq, cctx, cresp, cerr, sent, rl, connPc, dials >>
    /\ UNCHANGED << mgrVars, dispVars, authVars, userVars, extVars >>

\* ----------------------------------------------------- receiveLoop -------
\* loop head: select { case <-c.ctx.Done(): return; default: };
\* conn := c.conn (under connMu.RLock); if conn == nil { return }
RecvTop(k) ==
    /\ rl[k].pc = "top"
    /\ connMu = "free"
    /\ rl' = [rl EXCEPT ![k] = IF ctxDone \/ conn = 0
                                THEN [pc |-> "exited", conn |-> 0]
                                ELSE [pc |-> "read", conn |-> conn]]
    /\ UNCHANGED << conn, connStatus, connMu, isConnected, ctxDone, seq,
                    pending, respCh, cpc, cseq, cctx, cresp, cerr, sent, connPc,
                    dials, closePc, closeSnap >>
    /\ UNCHANGED << mgrVars, dispVars, authVars, userVars, extVars >>

\* the requests of caller 1 are ones the server rejects: its answer to them
\* carries an error field; the other callers' requests are accepted
Rejected(r) == r = 1

\* the response the server sends to request frame f: it echoes f's seq
ServerResponse(f) ==
    [seq |-> f.seq, payload |-> [answerTo |-> f.from, error |-> Rejected(f.from)]]

\* conn.ReadMessage() returns the server's answer to a written request (the
\* server answers in any order); the frame is routed through c.pending
RecvResponse(k) ==
    /\ rl[k].pc = "read"
    /\ connStatus[rl[k].conn] = "open"
    /\ \E f \in sent[rl[k].conn] :
         /\ sent' = [sent EXCEPT ![rl[k].conn] = @ \ {f}]
         /\ LET resp == ServerResponse(f)
                hit  == PendingLookup(pending, resp.seq)
            IN IF hit # << >>
               THEN \* select { case respCh <- &resp: default: }
                    respCh' = [respCh EXCEPT ![hit[1]].buf =
                                  IF Len(@) = 0 THEN << resp >> ELSE @]
               ELSE \* handleNotification: a response opcode is no event kind
                    UNCHANGED respCh
    /\ rl' = [rl EXCEPT ![k].pc = "top"]
    /\ UNCHANGED << conn, connStatus, connMu, isConnected, ctxDone, seq,
                    pending, cpc, cseq, cctx, cresp, cerr, connPc, dials,
                    closePc, closeSnap >>
    /\ UNCHANGED << mgrVars, dispVars, authVars, userVars, extVars >>

\* conn.ReadMessage() fails: c.setConnected(false); return
RecvReadErr(k) ==
    /\ rl[k].pc = "read"
    /\ connStatus[rl[k].conn] \in {"failed", "closed"}
    /\ isConnected' = FALSE
    /\ rl' = [rl EXCEPT ![k] = [pc |-> "exited", conn |-> 0]]
    /\ UNCHANGED << conn, connStatus, connMu, ctxDone, seq, pending,
                    respCh, cpc, cseq, cctx, cresp, cerr, sent, connPc, dials,
                    closePc, closeSnap >>
    /\ UNCHANGED << mgrVars, dispVars, authVars, userVars, extVars >>

\* the network or the server breaks an open transport
TransportFail(k) ==
    /\ connStatus[k] = "open"
    /\ connStatus' = [connStatus EXCEPT ![k] = "failed"]
    /\ sent' = [sent EXCEPT ![k] = {}]
    /\ UNCHANGED << conn, connMu, isConnected, ctxDone, seq, pending,
                    respCh, cpc, cseq, cctx, cresp, cerr, rl, connPc,
                    dials, closePc, closeSnap >>
    /\ UNCHANGED << mgrVars, dispVars, authVars, userVars, extVars >>

\* ------------------------------------------ sendAndWaitWithTimeout -------
\* a bug: no deferred delete, the entry of a returned call stays registered
ReturnLeak(r, out, registered) ==
    /\ cpc' = [cpc EXCEPT ![r] = "done"]
    /\ cresp' = [cresp EXCEPT ![r] = out.resp]
    /\ cerr' = [cerr EXCEPT ![r] = out.err]
    /\ pending' = pending
    /\ respCh' = [respCh EXCEPT ![r] = NoChan]
    /\ cctx' = [cctx EXCEPT ![r] = "none"]

\* the function returns (resp, err); the deferred delete(c.pending, seq) runs
\* and the call's channel becomes unreachable
Return(r, out, registered) ==
    /\ cpc' = [cpc EXCEPT ![r] = "done"]
    /\ cresp' = [cresp EXCEPT ![r] = out.resp]
    /\ cerr' = [cerr EXCEPT ![r] = out.err]
    /\ pending' = IF registered THEN MapDelete(pending, cseq[r]) ELSE pending
    /\ respCh' = [respCh EXCEPT ![r] = NoChan]
    /\ cctx' = [cctx EXCEPT ![r] = "none"]

\* if !c.IsConnected() { return nil, ErrNotConnected }
SendCheck(r) ==
    /\ cpc[r] = "idle"
    /\ IF ~IsConnected(isConnected)
       THEN Return(r, [resp |-> << >>, err |-> ErrNotConnected], FALSE)
       ELSE /\ cpc' = [cpc EXCEPT ![r] = "checked"]
            /\ UNCHANGED << cresp, cerr, pending, respCh, cctx >>
    /\ UNCHANGED << conn, connStatus, connMu, isConnected, ctxDone, seq,
                    cseq, sent, rl, connPc, dials, closePc, closeSnap >>
    /\ UNCHANGED << mgrVars, dispVars, authVars, userVars, extVars >>

\* seq := c.nextSeq(); respCh := make(chan *Response, 1); c.pending[seq] = respCh
SendRegister(r) ==
    /\ cpc[r] = "checked"
    /\ seq' = nextSeq(seq)
    /\ cseq' = [cseq EXCEPT ![r] = seq']
    /\ respCh' = [respCh EXCEPT ![r] = NoChan]
    /\ pending' = MapPut(pending, seq', r)
    /\ cpc' = [cpc EXCEPT ![r] = "registered"]
    /\ UNCHANGED << conn, connStatus, connMu, isConnected, ctxDone,
                    cctx, cresp, cerr, sent, rl, connPc, dials, closePc, closeSnap >>
    /\ UNCHANGED << mgrVars, dispVars, authVars, userVars, extVars >>

\* c.connMu.RLock(); if c.conn == nil { return nil, ErrNotConnected }
SendNoConn(r) ==
    /\ cpc[r] = "registered"
    /\ connMu = "free"
    /\ conn = 0
    /\ Return(r, [resp |-> << >>, err |-> ErrNotConnected], TRUE)
    /\ UNCHANGED << conn, connStatus, connMu, isConnected, ctxDone, seq,
                    cseq, sent, rl, connPc, dials, closePc, closeSnap >>
    /\ UNCHANGED << mgrVars, dispVars, authVars, userVars, extVars >>

\* c.conn.WriteMessage(...) succeeds; the caller enters the select. A write
\* to a transport that has failed may still be accepted locally: the frame
\* is then lost
SendWrite(r) ==
    /\ cpc[r] = "registered"
    /\ connMu = "free"
    /\ conn # 0
    /\ sent' = IF connStatus[conn] = "open"
               THEN [sent EXCEPT ![conn] = @ \cup {[seq |-> cseq[r], from |-> r]}]
               ELSE sent
    /\ cctx' = [cctx EXCEPT ![r] = "cur"]
    /\ cpc' = [cpc EXCEPT ![r] = "wait"]
    /\ UNCHANGED << conn, connStatus, connMu, isConnected, ctxDone, seq,
                    pending, respCh, cseq, cresp, cerr, rl, connPc, dials,
                    closePc, closeSnap >>
    /\ UNCHANGED << mgrVars, dispVars, authVars, userVars, extVars >>

\* c.conn.WriteMessage(...) fails on a broken transport: return nil, err
SendWriteErr(r) ==
    /\ cpc[r] = "registered"
    /\ connMu = "free"
    /\ conn # 0
    /\ connStatus[conn] # "open"
    /\ Return(r, [resp |-> << >>, err |-> ErrTransport], TRUE)
    /\ UNCHANGED << conn, connStatus, connMu, isConnected, ctxDone, seq,
                    cseq, sent, rl, connPc, dials, closePc, closeSnap >>
    /\ UNCHANGED << mgrVars, dispVars, authVars, userVars, extVars >>

\* ---- the write of sendAndWaitWithTimeout, begun and ended
\* c.connMu.RLock() is taken (a read lock: other holders of the read lock
\* do not wait), c.conn is not nil, c.conn.WriteMessage is entered
WriteBegin(r) ==
    /\ cpc[r] = "registered"
    /\ r \notin writing
    /\ connMu = "free"
    /\ conn # 0
    /\ writing' = writing \cup {r}
    /\ UNCHANGED pingTask
    /\ UNCHANGED << clientVars, mgrVars, dispVars, authVars, userVars,
                    uploadVars, historyVars, dialogVars, classifyVars,
                    announced, adminVars >>

\* c.conn.WriteMessage returns nil, c.connMu.RUnlock(); the caller enters
\* the select
WriteEnd(r) ==
    /\ r \in writing
    /\ writing' = writing \ {r}
    /\ sent' = IF connStatus[conn] = "open"
               THEN [sent EXCEPT ![conn] = @ \cup {[seq |-> cseq[r], from |-> r]}]
               ELSE sent
    /\ cctx' = [cctx EXCEPT ![r] = "cur"]
    /\ cpc' = [cpc EXCEPT ![r] = "wait"]
    /\ UNCHANGED pingTask
    /\ UNCHANGED << conn, connStatus, connMu, isConnected, ctxDone, seq,
                    pending, respCh, cseq, cresp, cerr, rl, connPc, dials,
                    closePc, closeSnap >>
    /\ UNCHANGED << mgrVars, dispVars, authVars, userVars,
                    uploadVars, historyVars, dialogVars, classifyVars,
                    announced, adminVars >>

\* select: case resp := <-respCh (a value, or nil from the closed channel)
WaitRecv(r) ==
    /\ cpc[r] = "wait"
    /\ respCh[r].buf # << >> \/ respCh[r].closed
    /\ Return(r, RecvOutcome(respCh[r].buf), TRUE)
    /\ UNCHANGED << conn, connStatus, connMu, isConnected, ctxDone, seq,
                    cseq, sent, rl, connPc, dials, closePc, closeSnap >>
    /\ UNCHANGED << mgrVars, dispVars, authVars, userVars, extVars >>

\* select: case <-time.After(timeout); the timer may be ready whenever the
\* select is evaluated, which is the only case when timeout = 0
WaitTimeout(r) ==
    /\ cpc[r] = "wait"
    /\ Return(r, [resp |-> << >>, err |-> ErrTimeout], TRUE)
    /\ UNCHANGED << conn, connStatus, connMu, isConnected, ctxDone, seq,
                    cseq, sent, rl, connPc, dials, closePc, closeSnap >>
    /\ UNCHANGED << mgrVars, dispVars, authVars, userVars, extVars >>

\* select: case <-c.ctx.Done(), the context read when the select is entered
WaitCtxDone(r) ==
    /\ cpc[r] = "wait"
    /\ cctx[r] = "old" \/ (cctx[r] = "cur" /\ ctxDone)
    /\ Return(r, [resp |-> << >>, err |-> ErrNotConnected], TRUE)
    /\ UNCHANGED << conn, connStatus, connMu, isConnected, ctxDone, seq,
                    cseq, sent, rl, connPc, dials, closePc, closeSnap >>
    /\ UNCHANGED << mgrVars, dispVars, authVars, userVars, extVars >>

\* ---------------------------------------------------- StartPingLoop -------
\* no ping loop was started
PingIdle ==
    /\ pingTask = [k \in ConnIds |-> "none"]
    /\ writing = {}

\* StartPingLoop, called once by ConnectAndLogin, ConnectAndSync or
\* AuthRequest after the connection they made: c.wg.Add(1); go func() {...}
StartPingLoop ==
    /\ connPc = "idle"
    /\ conn # 0
    /\ isConnected
    /\ pingTask[conn] = "none"
    /\ pingTask' = [pingTask EXCEPT ![conn] = "run"]
    /\ UNCHANGED writing
    /\ UNCHANGED << clientVars, mgrVars, dispVars, authVars, userVars,
                    uploadVars, historyVars, dialogVars, classifyVars,
                    announced, adminVars >>

\* the ping loop's select, case <-c.ctx.Done(): return
PingCtxDone(k) ==
    /\ pingTask[k] = "run"
    /\ ctxDone
    /\ pingTask' = [pingTask EXCEPT ![k] = "exited"]
    /\ UNCHANGED writing
    /\ UNCHANGED << clientVars, mgrVars, dispVars, authVars, userVars,
                    uploadVars, historyVars, dialogVars, classifyVars,
                    announced, adminVars >>

\* the ping loop's select, case <-ticker.C, 30 s after the last tick: return
\* if !c.IsConnected(), else a ping request on whatever transport c.conn is
PingTick(k) ==
    /\ pingTask[k] = "run"
    /\ pingTask' = IF ~IsConnected(isConnected)
                   THEN [pingTask EXCEPT ![k] = "exited"]
                   ELSE pingTask
    /\ UNCHANGED writing
    /\ UNCHANGED << clientVars, mgrVars, dispVars, authVars, userVars,
                    uploadVars, historyVars, dialogVars, classifyVars,
                    announced, adminVars >>

\* ------------------------------------------------------------ uploads ----
Uploads == 1 .. NumUploads
AssetIds == 1 .. MaxAsset

\* DefaultTimeout, and the literal used for videos, in seconds
DefaultTimeout == 30
VideoTimeout == 120

\* the timer of the select that waits for the processing notification
UploadWait(kind) == IF kind = "VIDEO" THEN VideoTimeout ELSE DefaultTimeout

\* results of UploadFile / UploadVideo
NoResult == [err |-> "none", type |-> "none", id |-> 0]
UploadError(e) == [err |-> e, type |-> "none", id |-> 0]
Attachment(kind, id) == [err |-> "nil", type |-> kind, id |-> id]

\* no upload was started
UploadIdle ==
    /\ fileWaiters = [a \in AssetIds |-> 0]
    /\ upc = [u \in Uploads |-> "idle"]
    /\ ukind = [u \in Uploads |-> "none"]
    /\ fileID = [u \in Uploads |-> 0]
    /\ waiterCh = [u \in Uploads |-> 0]
    /\ uret = [u \in Uploads |-> NoResult]
    /\ uregistered = [u \in Uploads |-> FALSE]
    /\ waited = [u \in Uploads |-> 0]
    /\ arrived = {}

\* registerFileWaiter(id): the table entry is the new channel
registerFileWaiter(tbl, id, u) == [tbl EXCEPT ![id] = u]

\* a bug: the entry stays in the table
unregisterFileWaiterKeeps(tbl, id) == tbl

\* unregisterFileWaiter(id): delete(c.fileWaiters, id)
unregisterFileWaiter(tbl, id) == [tbl EXCEPT ![id] = 0]

\* UploadFile / UploadVideo up to the waiter: sendAndWait for a slot fails
\* (ok = FALSE), or the reply has no url or id 0, or the waiter is
\* registered for the slot's id
UploadSlot(u, kind, ok, id) ==
    /\ upc[u] = "idle"
    /\ ukind' = [ukind EXCEPT ![u] = kind]
    /\ IF ~ok \/ id = 0
       THEN /\ upc' = [upc EXCEPT ![u] = "done"]
            /\ uret' = [uret EXCEPT ![u] =
                  UploadError(IF ok THEN "no_upload_url" ELSE "request")]
            /\ UNCHANGED << fileWaiters, fileID, uregistered >>
       ELSE /\ upc' = [upc EXCEPT ![u] = "post"]
            /\ fileID' = [fileID EXCEPT ![u] = id]
            /\ fileWaiters' = registerFileWaiter(fileWaiters, id, u)
            /\ uregistered' = [uregistered EXCEPT ![u] = TRUE]
            /\ UNCHANGED uret
    /\ UNCHANGED << waiterCh, waited, arrived >>
    /\ UNCHANGED << clientVars, mgrVars, dispVars, authVars, userVars,
                    historyVars, tailVars >>

\* the HTTP POST of the bytes is answered: an error or a status other than
\* 200 returns an error (the deferred unregisterFileWaiter runs), 200 goes
\* on to the select
UploadPost(u, ok) ==
    /\ upc[u] = "post"
    /\ IF ok
       THEN /\ upc' = [upc EXCEPT ![u] = "wait"]
            /\ UNCHANGED << fileWaiters, uret >>
       ELSE /\ upc' = [upc EXCEPT ![u] = "done"]
            /\ uret' = [uret EXCEPT ![u] = UploadError("upload_failed")]
            /\ fileWaiters' = unregisterFileWaiter(fileWaiters, fileID[u])
    /\ UNCHANGED << ukind, fileID, waiterCh, uregistered, waited, arrived >>
    /\ UNCHANGED << clientVars, mgrVars, dispVars, authVars, userVars,
                    historyVars, tailVars >>

\* select, case <-waiterCh: the attachment is returned, the deferred
\* unregisterFileWaiter runs
UploadProcessed(u) ==
    /\ upc[u] = "wait"
    /\ waiterCh[u] > 0
    /\ waiterCh' = [waiterCh EXCEPT ![u] = 0]
    /\ upc' = [upc EXCEPT ![u] = "done"]
    /\ uret' = [uret EXCEPT ![u] = Attachment(ukind[u], fileID[u])]
    /\ fileWaiters' = unregisterFileWaiter(fileWaiters, fileID[u])
    /\ UNCHANGED << ukind, fileID, uregistered, waited, arrived >>
    /\ UNCHANGED << clientVars, mgrVars, dispVars, authVars, userVars,
                    historyVars, tailVars >>

\* select, case <-time.After(...): a warning is logged, the attachment is
\* returned all the same, the deferred unregisterFileWaiter runs
UploadTimeout(u) ==
    /\ upc[u] = "wait"
    /\ waited' = [waited EXCEPT ![u] = UploadWait(ukind[u])]
    /\ upc' = [upc EXCEPT ![u] = "done"]
    /\ uret' = [uret EXCEPT ![u] = Attachment(ukind[u], fileID[u])]
    /\ fileWaiters' = unregisterFileWaiter(fileWaiters, fileID[u])
    /\ UNCHANGED << ukind, fileID, waiterCh, uregistered, arrived >>
    /\ UNCHANGED << clientVars, mgrVars, dispVars, authVars, userVars,
                    historyVars, tailVars >>

\* the waiters completed by a notification whose payload carries the ids in S
Completed(S) == { fileWaiters[a] : a \in { b \in S : fileWaiters[b] # 0 } }

\* handleFileAttachNotification: for payload.fileId and for payload.videoId
\* (0 is an absent field), a registered waiter gets the response by a
\* non-blocking send and its entry is deleted
NotifAttach(fid, vid) ==
    /\ \E u \in Uploads : upc[u] # "idle"
    /\ LET S == { fid, vid } \ { 0 }
       IN  /\ waiterCh' = [u \in Uploads |->
                             IF u \in Completed(S) THEN 1 ELSE waiterCh[u]]
           /\ fileWaiters' = [a \in AssetIds |->
                                IF a \in S THEN 0 ELSE fileWaiters[a]]
           /\ arrived' = arrived \cup S
    /\ UNCHANGED << upc, ukind, fileID, uret, uregistered, waited >>
    /\ UNCHANGED << clientVars, mgrVars, dispVars, authVars, userVars,
                    historyVars, tailVars >>

\* uploads of files and videos on one Client and the attach notifications
\* of its receive loop
UploadNext ==
    \/ \E u \in Uploads, kind \in {"FILE", "VIDEO"}, ok \in BOOLEAN,
          id \in 0 .. MaxAsset : UploadSlot(u, kind, ok, id)
    \/ \E u \in Uploads, ok \in BOOLEAN : UploadPost(u, ok)
    \/ \E u \in Uploads : UploadProcessed(u)
    \/ \E u \in Uploads : UploadTimeout(u)
    \/ \E fid \in 0 .. MaxAsset, vid \in 0 .. MaxAsset : NotifAttach(fid, vid)

\* ---------------------------------------------------- message history ----
Chats == 1 .. NumChats
MessageIds == 1 .. NumMessageIds

NoMessage == [chat |-> 0, mid |-> 0, text |-> FALSE]

\* no Message event was handled
HistoryIdle ==
    /\ message_history = {}
    /\ historyLimit = 0
    /\ now = 0
    /\ nmessages = 0
    /\ lastMessage = NoMessage

\* a tenant created with some history limit
HistoryInit ==
    /\ message_history = {}
    /\ historyLimit \in 0 .. MaxHistory
    /\ now = 0
    /\ nmessages = 0
    /\ lastMessage = NoMessage

\* the rows of one chat
ChatRows(rows, chat) == { r \in rows : r.chat = chat }

\* trimMessageHistory: what may remain of the rows of the chat after
\* DELETE ... WHERE id IN (SELECT id ... ORDER BY timestamp DESC OFFSET
\* limit); rows of equal timestamp are ordered either way
Trimmed(rows, chat, limit) ==
    { (rows \ ChatRows(rows, chat)) \cup K :
        K \in { K \in SUBSET ChatRows(rows, chat) :
                  /\ Cardinality(K) =
                        IF Cardinality(ChatRows(rows, chat)) < limit
                        THEN Cardinality(ChatRows(rows, chat)) ELSE limit
                  /\ \A k \in K, d \in ChatRows(rows, chat) \ K :
                        k.ts >= d.ts } }

\* handleMessageEvent, the part that writes the history: the limit is read
\* from userinfocache; with a positive limit and a non-empty text
\* saveMessageToHistory inserts the row with timestamp time.Now() (later
\* than that of the rows before it), which fails on UNIQUE(user_id,
\* message_id), and after a successful insert trimMessageHistory runs
MessageEvent(chat, mid, text) ==
    /\ nmessages < MaxMessages
    /\ nmessages' = nmessages + 1
    /\ lastMessage' = [chat |-> chat, mid |-> mid, text |-> text]
    /\ LET limit == IF cacheEntry THEN historyLimit ELSE 0
           ts == now + 1
       IN  IF limit > 0 /\ text
           THEN /\ now' = ts
                /\ IF \E r \in message_history : r.mid = mid
                   THEN UNCHANGED message_history
                   ELSE message_history' \in
                           Trimmed(message_history \cup
                                     {[chat |-> chat, mid |-> mid,
                                       ts |-> ts]}, chat, limit)
           ELSE UNCHANGED << message_history, now >>
    /\ UNCHANGED historyLimit
    /\ UNCHANGED << clientVars, mgrVars, dispVars, authVars, userVars,
                    uploadVars, tailVars >>

\* the Message events of one tenant, handled one after the other by the
\* receive loop
HistoryNext ==
    \E chat \in Chats, mid \in MessageIds, text \in BOOLEAN :
       MessageEvent(chat, mid, text)

\* ---------------------------------------------------------- dialog id ----
\* int64 user ids, at the width of the model
UserIds == (0 - 2 ^ (IdBits - 1)) .. (2 ^ (IdBits - 1) - 1)

\* two's complement: the bit pattern of a signed value and back
ToUnsigned(v) == IF v < 0 THEN v + 2 ^ IdBits ELSE v
ToSigned(u) == IF u >= 2 ^ (IdBits - 1) THEN u - 2 ^ IdBits ELSE u

RECURSIVE XorBits(_, _, _)
XorBits(x, y, n) ==
    IF n = 0
    THEN 0
    ELSE (((x % 2) + (y % 2)) % 2) + 2 * XorBits(x \div 2, y \div 2, n - 1)

RECURSIVE OrBits(_, _, _)
OrBits(x, y, n) ==
    IF n = 0
    THEN 0
    ELSE (IF (x % 2) + (y % 2) > 0 THEN 1 ELSE 0)
            + 2 * OrBits(x \div 2, y \div 2, n - 1)

\* Go's a ^ b on signed integers
Xor(a, b) == ToSigned(XorBits(ToUnsigned(a), ToUnsigned(b), IdBits))

\* a bug: a | b
GetDialogIDOr(a, b) == ToSigned(OrBits(ToUnsigned(a), ToUnsigned(b), IdBits))

\* GetDialogID(userID1, userID2): userID1 ^ userID2
GetDialogID(a, b) == Xor(a, b)

DialogIdle ==
    /\ userID1 = 0
    /\ userID2 = 0
    /\ chatID = 0
    /\ dialogDone = FALSE

\* any two user ids
DialogInit ==
    /\ userID1 \in UserIds
    /\ userID2 \in UserIds
    /\ chatID = 0
    /\ dialogDone = FALSE

\* chatID = maxclient.GetDialogID(client.MaxUserID, user.ID)
DialogCall ==
    /\ ~dialogDone
    /\ chatID' = GetDialogID(userID1, userID2)
    /\ dialogDone' = TRUE
    /\ UNCHANGED << userID1, userID2 >>
    /\ UNCHANGED << clientVars, mgrVars, dispVars, authVars, userVars,
                    uploadVars, historyVars, classifyVars, announced,
                    adminVars, pingVars >>

\* ------------------------------------------------------ specification ----
ClientNext ==
    \/ ConnectBegin
    \/ ConnectDialOk
    \/ ConnectDialFail
    \/ CloseBegin
    \/ CloseLock
    \/ CloseDrain
    \/ \E k \in ConnIds : RecvTop(k)
    \/ \E k \in ConnIds : RecvResponse(k)
    \/ \E k \in ConnIds : RecvReadErr(k)
    \/ \E k \in ConnIds : TransportFail(k)
    \/ \E r \in Callers : SendCheck(r)
    \/ \E r \in Callers : SendRegister(r)
    \/ \E r \in Callers : SendNoConn(r)
    \/ \E r \in Callers : SendWrite(r)
    \/ \E r \in Callers : SendWriteErr(r)
    \/ \E r \in Callers : WaitRecv(r)
    \/ \E r \in Callers : WaitTimeout(r)
    \/ \E r \in Callers : WaitCtxDone(r)

\* ==================================================== session manager ====
Sups == 1 .. MaxSpawns

\* the three return statements of startClient
Exits == {"exit_login", "exit_kill", "exit_cap"}

\* maxReconnectAttempts := 120
maxReconnectAttempts == 120

\* the events startClient passes to sendEventWithWebHook
NoEvent == [type |-> "none", reason |-> "", attempt |-> 0, reconnect |-> FALSE]
\* a bug: every Sync event says reconnect = false
SyncEventInitial(rc) ==
    [type |-> "Sync", reason |-> "", attempt |-> 0, reconnect |-> FALSE]

SyncEvent(rc) == [type |-> "Sync", reason |-> "", attempt |-> 0, reconnect |-> rc]
ReconnectingEvent(a) ==
    [type |-> "Reconnecting", reason |-> "", attempt |-> a, reconnect |-> FALSE]
\* a bug: the supervisor returns at the cap without the Disconnected event
DisconnectedEventNone ==
    [type |-> "none", reason |-> "", attempt |-> 0, reconnect |-> FALSE]

DisconnectedEvent ==
    [type |-> "Disconnected", reason |-> "max_reconnect_attempts",
     attempt |-> 0, reconnect |-> FALSE]

\* ClientManager.IsConnected(userID)
ManagerIsConnected == maxClients # 0 /\ cliConnected[maxClients]

\* cleanupClient(userID)
cleanupClient ==
    /\ maxClients' = 0
    /\ myClients' = 0
    /\ httpClients' = 0
    /\ killchannel' = FALSE

\* a bug: the supervisor gives up when the counter reaches the cap
OverCapAtCap(a) == a >= maxReconnectAttempts

\* reconnectAttempts > maxReconnectAttempts
OverCap(a) == a > maxReconnectAttempts

\* a disconnect request is recorded for the goroutines supervising a session
NoteDisconnect ==
    discReq' = [i \in Sups |-> discReq[i] \/ spc[i] \in {"select", "reconnect"}]

\* no startClient goroutine, no registry entry, no kill channel; the tenant
\* has its row and its cache entry
ManagerFields ==
    /\ reconnectAttempts = [i \in Sups |-> 0]
    /\ cliConnected = [i \in Sups |-> FALSE]
    /\ maxClients = 0
    /\ myClients = 0
    /\ httpClients = 0
    /\ userRow = TRUE
    /\ cacheEntry = TRUE
    /\ logoutHooks = 0
    /\ killOffers = 0
    /\ deletes = 0
    /\ logoutBy = "none"
    /\ postmap = [i \in Sups |-> NoEvent]
    /\ connectStatus = 0
    /\ fails = [i \in Sups |-> 0]
    /\ discReq = [i \in Sups |-> FALSE]

\* the server is up and the tenant has no session
ManagerInit ==
    /\ ManagerFields
    /\ spc = [i \in Sups |-> "none"]
    /\ killchannel = FALSE
    /\ dbConnected = FALSE

\* connectOnStartup has run for the tenant (a row with an auth token):
\* killchannel[txtid] = make(chan bool); go s.startClient(...)
BootInit ==
    /\ ManagerFields
    /\ spc = [i \in Sups |-> IF i = 1 THEN "start" ELSE "none"]
    /\ killchannel = TRUE
    /\ dbConnected \in BOOLEAN

\* POST /session/connect, the tenant is connected: 409
HandlerConnect409 ==
    /\ ManagerIsConnected
    /\ connectStatus' = 409
    /\ UNCHANGED << spc, reconnectAttempts, cliConnected, maxClients,
                    killchannel, dbConnected, postmap, fails, discReq >>
    /\ UNCHANGED << clientVars, dispVars, authVars, userVars, extVars >>

\* POST /session/connect otherwise (an auth token is stored, Immediate):
\* killchannel[txtid] = make(chan bool); go s.startClient(...)
HandlerConnect(i) ==
    /\ ~ManagerIsConnected
    /\ spc[i] = "none"
    /\ \A j \in Sups : j < i => spc[j] # "none"
    /\ killchannel' = TRUE
    /\ spc' = [spc EXCEPT ![i] = "start"]
    /\ connectStatus' = 200
    /\ UNCHANGED << reconnectAttempts, cliConnected, maxClients, dbConnected,
                    postmap, fails, discReq >>
    /\ UNCHANGED << clientVars, dispVars, authVars, userVars, extVars >>

\* POST /session/disconnect, case ch <- true: the send completes with the
\* receive of a supervisor standing at its select
HandlerDisconnectSent(i) ==
    /\ killchannel
    /\ spc[i] = "select"
    /\ spc' = [spc EXCEPT ![i] = "killed"]
    /\ dbConnected' = FALSE
    /\ NoteDisconnect
    /\ UNCHANGED << reconnectAttempts, cliConnected, maxClients, killchannel,
                    postmap, connectStatus, fails >>
    /\ UNCHANGED << clientVars, dispVars, authVars, userVars, extVars >>

\* POST /session/disconnect, default: delete(killchannel, txtid)
HandlerDisconnectMissed ==
    /\ killchannel
    /\ killchannel' = FALSE
    /\ dbConnected' = FALSE
    /\ NoteDisconnect
    /\ UNCHANGED << spc, reconnectAttempts, cliConnected, maxClients, postmap,
                    connectStatus, fails >>
    /\ UNCHANGED << clientVars, dispVars, authVars, userVars, extVars >>

\* POST /session/disconnect, killchannel[txtid] is nil
HandlerDisconnectNoChan ==
    /\ ~killchannel
    /\ dbConnected' = FALSE
    /\ NoteDisconnect
    /\ UNCHANGED << spc, reconnectAttempts, cliConnected, maxClients,
                    killchannel, postmap, connectStatus, fails >>
    /\ UNCHANGED << clientVars, dispVars, authVars, userVars, extVars >>

\* startClient: NewClient; clientManager.SetMaxClient(userID, client);
\* SetMyClient(userID, mycli); SetHTTPClient(userID, httpClient)
SupStart(i) ==
    /\ spc[i] = "start"
    /\ maxClients' = i
    /\ myClients' = i
    /\ httpClients' = i
    /\ spc' = [spc EXCEPT ![i] = "login"]
    /\ UNCHANGED << reconnectAttempts, cliConnected, killchannel, dbConnected,
                    postmap, connectStatus, fails, discReq >>
    /\ UNCHANGED << clientVars, dispVars, authVars >>
    /\ UNCHANGED << userRest, extVars >>

\* client.ConnectAndLogin succeeds: connected=1, Sync{reconnect: false}
SupLoginOk(i) ==
    /\ spc[i] = "login"
    /\ cliConnected' = [cliConnected EXCEPT ![i] = TRUE]
    /\ dbConnected' = TRUE
    /\ postmap' = [postmap EXCEPT ![i] = SyncEvent(FALSE)]
    /\ reconnectAttempts' = [reconnectAttempts EXCEPT ![i] = 0]
    /\ fails' = [fails EXCEPT ![i] = 0]
    /\ spc' = [spc EXCEPT ![i] = "select"]
    /\ announced' = [announced EXCEPT ![i] = << >>]
    /\ UNCHANGED << maxClients, killchannel, connectStatus, discReq >>
    /\ UNCHANGED << clientVars, dispVars, authVars, userVars, extRest >>

\* client.ConnectAndLogin fails: cleanupClient(userID); return
SupLoginFail(i) ==
    /\ spc[i] = "login"
    /\ cleanupClient
    /\ fails' = [fails EXCEPT ![i] = @ + 1]
    /\ spc' = [spc EXCEPT ![i] = "exit_login"]
    /\ UNCHANGED << reconnectAttempts, cliConnected, dbConnected, postmap,
                    connectStatus, discReq >>
    /\ UNCHANGED << clientVars, dispVars, authVars >>
    /\ UNCHANGED << userRest, extVars >>

\* case <-killchannel[userID]: client.Disconnect(); cleanupClient(userID);
\* connected=0; return
SupKillBranch(i) ==
    /\ spc[i] = "killed"
    /\ cliConnected' = [cliConnected EXCEPT ![i] = FALSE]
    /\ cleanupClient
    /\ dbConnected' = FALSE
    /\ reconnectAttempts' = [reconnectAttempts EXCEPT ![i] = 0]
    /\ fails' = [fails EXCEPT ![i] = 0]
    /\ spc' = [spc EXCEPT ![i] = "exit_kill"]
    /\ UNCHANGED << postmap, connectStatus, discReq >>
    /\ UNCHANGED << clientVars, dispVars, authVars >>
    /\ UNCHANGED << userRest, extVars >>

\* default, client.IsConnected(): reconnectAttempts = 0; sleep 1 s
SupAlive(i) ==
    /\ spc[i] = "select"
    /\ cliConnected[i]
    /\ reconnectAttempts' = [reconnectAttempts EXCEPT ![i] = 0]
    /\ UNCHANGED << spc, cliConnected, maxClients, killchannel, dbConnected,
                    postmap, connectStatus, fails, discReq >>
    /\ UNCHANGED << clientVars, dispVars, authVars, userVars, extVars >>

\* a bug: every attempt is announced
NotifyAttemptAll(a) == TRUE

\* if reconnectAttempts == 1 || reconnectAttempts%10 == 0
NotifyAttempt(a) == a = 1 \/ a % 10 = 0

\* default, !client.IsConnected(), the counter is within the cap: a
\* Reconnecting event on the 1st and every 10th attempt, then sleep 5 s
SupRetry(i) ==
    /\ spc[i] = "select"
    /\ ~cliConnected[i]
    /\ LET a == reconnectAttempts[i] + 1
       IN /\ ~OverCap(a)
          /\ reconnectAttempts' = [reconnectAttempts EXCEPT ![i] = a]
          /\ postmap' = IF NotifyAttempt(a)
                        THEN [postmap EXCEPT ![i] = ReconnectingEvent(a)]
                        ELSE postmap
          /\ announced' = IF NotifyAttempt(a)
                          THEN [announced EXCEPT ![i] = Append(@, a)]
                          ELSE announced
    /\ spc' = [spc EXCEPT ![i] = "reconnect"]
    /\ UNCHANGED << cliConnected, maxClients, killchannel, dbConnected,
                    connectStatus, fails, discReq >>
    /\ UNCHANGED << clientVars, dispVars, authVars, userVars, extRest >>

\* default, !client.IsConnected(), the counter is over the cap:
\* cleanupClient; Disconnected{max_reconnect_attempts}; connected=0; return
SupGiveUp(i) ==
    /\ spc[i] = "select"
    /\ ~cliConnected[i]
    /\ LET a == reconnectAttempts[i] + 1
       IN /\ OverCap(a)
          /\ reconnectAttempts' = [reconnectAttempts EXCEPT ![i] = a]
    /\ cleanupClient
    /\ postmap' = [postmap EXCEPT ![i] = DisconnectedEvent]
    /\ dbConnected' = FALSE
    /\ spc' = [spc EXCEPT ![i] = "exit_cap"]
    /\ UNCHANGED << cliConnected, connectStatus, fails, discReq >>
    /\ UNCHANGED << clientVars, dispVars, authVars >>
    /\ UNCHANGED << userRest, extVars >>

\* client.ConnectAndSync succeeds: counter reset, connected=1,
\* Sync{reconnect: true}; sleep 1 s
SupReconnectOk(i) ==
    /\ spc[i] = "reconnect"
    /\ cliConnected' = [cliConnected EXCEPT ![i] = TRUE]
    /\ reconnectAttempts' = [reconnectAttempts EXCEPT ![i] = 0]
    /\ dbConnected' = TRUE
    /\ postmap' = [postmap EXCEPT ![i] = SyncEvent(TRUE)]
    /\ fails' = [fails EXCEPT ![i] = 0]
    /\ spc' = [spc EXCEPT ![i] = "select"]
    /\ announced' = [announced EXCEPT ![i] = << >>]
    /\ UNCHANGED << maxClients, killchannel, connectStatus, discReq >>
    /\ UNCHANGED << clientVars, dispVars, authVars, userVars, extRest >>

\* client.ConnectAndSync fails: continue
SupReconnectFail(i) ==
    /\ spc[i] = "reconnect"
    /\ fails' = [fails EXCEPT ![i] = @ + 1]
    /\ spc' = [spc EXCEPT ![i] = "select"]
    /\ UNCHANGED << reconnectAttempts, cliConnected, maxClients, killchannel,
                    dbConnected, postmap, connectStatus, discReq >>
    /\ UNCHANGED << clientVars, dispVars, authVars, userVars, extVars >>

\* SupReconnectFail while fewer than MaxFailures attempts in a row have failed
SupReconnectFailFew(i) ==
    /\ fails[i] < MaxFailures
    /\ SupReconnectFail(i)

\* the transport of a connected client dies: receiveLoop's setConnected(false)
TransportDrop(i) ==
    /\ cliConnected[i]
    /\ cliConnected' = [cliConnected EXCEPT ![i] = FALSE]
    /\ UNCHANGED << spc, reconnectAttempts, maxClients, killchannel,
                    dbConnected, postmap, connectStatus, fails, discReq >>
    /\ UNCHANGED << clientVars, dispVars, authVars, userVars, extVars >>

\* the steps of one startClient goroutine
SupStep(i) ==
    \/ SupStart(i) \/ SupLoginOk(i) \/ SupLoginFail(i) \/ SupKillBranch(i)
    \/ SupAlive(i) \/ SupRetry(i) \/ SupGiveUp(i)
    \/ SupReconnectOk(i) \/ SupReconnectFail(i)

\* one supervised session started at bootstrap, and disconnect requests
SupervisorNext ==
    \/ \E i \in Sups : SupStart(i)
    \/ \E i \in Sups : SupLoginOk(i)
    \/ \E i \in Sups : SupLoginFail(i)
    \/ \E i \in Sups : SupKillBranch(i)
    \/ \E i \in Sups : SupAlive(i)
    \/ \E i \in Sups : SupRetry(i)
    \/ \E i \in Sups : SupGiveUp(i)
    \/ \E i \in Sups : SupReconnectOk(i)
    \/ \E i \in Sups : SupReconnectFail(i)
    \/ \E i \in Sups : TransportDrop(i)
    \/ \E i \in Sups : HandlerDisconnectSent(i)
    \/ HandlerDisconnectMissed
    \/ HandlerDisconnectNoChan

\* connect and disconnect requests in any order, reconnects failing at most
\* MaxFailures times in a row (the cap is then out of reach)
ManagerNext ==
    \/ HandlerConnect409
    \/ \E i \in Sups : HandlerConnect(i)
    \/ \E i \in Sups : HandlerDisconnectSent(i)
    \/ HandlerDisconnectMissed
    \/ HandlerDisconnectNoChan
    \/ \E i \in Sups : SupStart(i)
    \/ \E i \in Sups : SupLoginOk(i)
    \/ \E i \in Sups : SupLoginFail(i)
    \/ \E i \in Sups : SupKillBranch(i)
    \/ \E i \in Sups : SupAlive(i)
    \/ \E i \in Sups : SupRetry(i)
    \/ \E i \in Sups : SupReconnectOk(i)
    \/ \E i \in Sups : SupReconnectFailFew(i)
    \/ \E i \in Sups : TransportDrop(i)

\* ------------------------------------------------ logout, safe delete ----
\* what safeDeleteUser reads and writes
UserState ==
    [row |-> userRow, max |-> maxClients, my |-> myClients,
     http |-> httpClients, kill |-> killchannel, hooks |-> logoutHooks,
     offers |-> killOffers]

\* cleanupClient(userID) on such a state
Cleaned(st) == [st EXCEPT !.max = 0, !.my = 0, !.http = 0, !.kill = FALSE]

\* a bug: nothing is cleaned up when the row is already gone
safeDeleteUserNoCleanup(st, sendWebhook) ==
    IF ~st.row
    THEN st
    ELSE LET hooked == IF sendWebhook /\ st.my # 0
                       THEN [st EXCEPT !.hooks = @ + 1]
                       ELSE st
             cleaned == Cleaned([hooked EXCEPT !.row = FALSE])
         IN  IF cleaned.kill THEN [cleaned EXCEPT !.offers = @ + 1] ELSE cleaned

\* server.safeDeleteUser(userID, sendWebhook): 1. the row is looked up;
\* 2. the LoggedOut webhook, if asked for and a wrapper is registered;
\* 3. DELETE FROM users; 4. cleanupClient; 5. a non-blocking send on
\* killchannel[userID], looked up after cleanupClient has deleted it
safeDeleteUser(st, sendWebhook) ==
    IF ~st.row
    THEN Cleaned(st)
    ELSE LET hooked == IF sendWebhook /\ st.my # 0
                       THEN [st EXCEPT !.hooks = @ + 1]
                       ELSE st
             cleaned == Cleaned([hooked EXCEPT !.row = FALSE])
         IN  IF cleaned.kill THEN [cleaned EXCEPT !.offers = @ + 1] ELSE cleaned

\* a call of safeDeleteUser made on behalf of by: "tenant" | "server"
ApplySafeDelete(sendWebhook, by) ==
    /\ deletes < MaxDeletes
    /\ LET st == safeDeleteUser(UserState, sendWebhook)
       IN  /\ userRow' = st.row
           /\ maxClients' = st.max
           /\ myClients' = st.my
           /\ httpClients' = st.http
           /\ killchannel' = st.kill
           /\ logoutHooks' = st.hooks
           /\ killOffers' = st.offers
    /\ deletes' = deletes + 1
    /\ logoutBy' = IF userRow THEN by ELSE logoutBy

\* POST /session/logout (the token is found in the cache or in users):
\* client.Logout() if the registered Client is connected, which sends the
\* logout opcode and closes the Client; userinfocache.Delete(token);
\* safeDeleteUser(txtid, false)
HandlerLogout ==
    /\ cacheEntry \/ userRow
    /\ cliConnected' = IF maxClients # 0 /\ cliConnected[maxClients]
                       THEN [cliConnected EXCEPT ![maxClients] = FALSE]
                       ELSE cliConnected
    /\ cacheEntry' = FALSE
    /\ ApplySafeDelete(FALSE, "tenant")
    /\ UNCHANGED << spc, reconnectAttempts, dbConnected, postmap,
                    connectStatus, fails, discReq >>
    /\ UNCHANGED << clientVars, dispVars, authVars, extVars >>

\* the receive loop of goroutine i's Client gets a logout notification:
\* handleEvent, case "LoggedOut": safeDeleteUser(mycli.userID, true)
NotifLoggedOut(i) ==
    /\ cliConnected[i]
    /\ ApplySafeDelete(TRUE, "server")
    /\ UNCHANGED << spc, reconnectAttempts, cliConnected, dbConnected, postmap,
                    connectStatus, fails, discReq, cacheEntry >>
    /\ UNCHANGED << clientVars, dispVars, authVars, extVars >>

\* one supervised session started at bootstrap, under logouts
LogoutNext ==
    \/ SupervisorNext
    \/ HandlerLogout
    \/ \E i \in Sups : NotifLoggedOut(i)

\* -------------------------------------------- notification to event ----
\* opcodes.go
OpPing == 1
OpReconnect == 3
OpLogout == 20
OpNotifMessage == 128
OpNotifTyping == 129
OpNotifMark == 130
OpNotifContact == 131
OpNotifPresence == 132
OpNotifConfig == 134
OpNotifChat == 135
OpNotifAttach == 136
OpNotifMsgDelete == 142
OpNotifMsgReactionsChanged == 155
OpNotifProfile == 159

\* the opcodes of the frames handed to handleNotification (0: no opcode)
NotifOpcodes ==
    {0, OpPing, OpReconnect, OpLogout, OpNotifMessage, OpNotifTyping,
     OpNotifMark, OpNotifContact, OpNotifPresence, OpNotifConfig, OpNotifChat,
     OpNotifAttach, OpNotifMsgDelete, OpNotifMsgReactionsChanged,
     OpNotifProfile}

\* values of a "status" field; "" is a missing field
Statuses == {"", "EDITED", "REMOVED", "ACTIVE"}

\* payloads, as far as handleNotification reads them
Payloads ==
    { p \in [message : BOOLEAN, inner : Statuses, outer : Statuses] :
        ~p.message => p.inner = "" }

NoPayload == [message |-> FALSE, inner |-> "", outer |-> ""]

ClassifyIdle ==
    /\ notifOpcode = 0
    /\ notifPayload = NoPayload
    /\ eventType = ""
    /\ postType = ""
    /\ classified = FALSE
    /\ notifIds = << 0, 0 >>

\* any notification
ClassifyInit ==
    /\ notifOpcode \in NotifOpcodes
    /\ notifPayload \in Payloads
    /\ eventType = ""
    /\ postType = ""
    /\ classified = FALSE
    /\ notifIds = << 0, 0 >>

\* no Reconnecting event was dispatched
AnnouncedIdle == announced = [i \in Sups |-> << >>]

\* a bug: the message object of the payload is not looked at
determineMessageEventTypeOuter(payload) ==
    CASE payload.outer = "EDITED" -> "MessageEdit"
      [] payload.outer = "REMOVED" -> "MessageDelete"
      [] OTHER -> "Message"

\* determineMessageEventType: the status of payload["message"], or of the
\* payload itself when that is not an object
determineMessageEventType(payload) ==
    LET status == IF payload.message THEN payload.inner ELSE payload.outer
    IN  CASE status = "EDITED" -> "MessageEdit"
          [] status = "REMOVED" -> "MessageDelete"
          [] OTHER -> "Message"

\* a bug: the attach notification is not intercepted and reaches the event
\* handler like any opcode without a case of its own
handleNotificationNoAttach(opcode, payload) ==
    CASE opcode = OpNotifMessage -> determineMessageEventType(payload)
      [] opcode = OpNotifMark -> "ReadReceipt"
      [] opcode = OpNotifChat -> "ChatUpdate"
      [] opcode = OpNotifTyping -> "Typing"
      [] opcode = OpNotifMsgReactionsChanged -> "ReactionChange"
      [] opcode = OpNotifContact -> "ContactUpdate"
      [] opcode = OpNotifPresence -> "PresenceUpdate"
      [] opcode = OpReconnect -> "Disconnected"
      [] opcode = OpLogout -> "LoggedOut"
      [] OTHER -> "Unknown"

\* handleNotification: the event.Type handed to the event handler, "" for
\* the attach notification, which goes to the upload waiters and returns
handleNotification(opcode, payload) ==
    CASE opcode = OpNotifAttach -> ""
      [] opcode = OpNotifMessage -> determineMessageEventType(payload)
      [] opcode = OpNotifMark -> "ReadReceipt"
      [] opcode = OpNotifChat -> "ChatUpdate"
      [] opcode = OpNotifTyping -> "Typing"
      [] opcode = OpNotifMsgReactionsChanged -> "ReactionChange"
      [] opcode = OpNotifContact -> "ContactUpdate"
      [] opcode = OpNotifPresence -> "PresenceUpdate"
      [] opcode = OpReconnect -> "Disconnected"
      [] opcode = OpLogout -> "LoggedOut"
      [] OTHER -> "Unknown"

\* handleEvent: the cases of the switch that go on to sendEventWithWebHook
\* with postmap["type"] = event.Type
Forwarded ==
    {"Message", "MessageEdit", "MessageDelete", "ReadReceipt", "ChatUpdate",
     "Typing", "ReactionChange", "ContactUpdate", "PresenceUpdate",
     "Disconnected"}

\* the receive loop of goroutine i's Client hands a frame that answers no
\* pending request to handleNotification, and the event built from it to
\* mycli.handleEvent: "LoggedOut" goes to safeDeleteUser(userID, true),
\* which dispatches the webhook itself, the forwarded types go to
\* sendEventWithWebHook, any other type returns
ReceiveNotification(i) ==
    /\ cliConnected[i]
    /\ myClients = i
    /\ ~classified
    /\ classified' = TRUE
    /\ eventType' = handleNotification(notifOpcode, notifPayload)
    /\ IF eventType' = "LoggedOut"
       THEN /\ ApplySafeDelete(TRUE, "server")
            /\ postType' = IF logoutHooks' > logoutHooks
                           THEN "LoggedOut" ELSE ""
       ELSE /\ postType' = IF eventType' \in Forwarded
                           THEN eventType' ELSE ""
            /\ UNCHANGED << maxClients, killchannel, userVars >>
    /\ UNCHANGED << notifOpcode, notifPayload, notifIds, cacheEntry >>
    /\ UNCHANGED << spc, reconnectAttempts, cliConnected, dbConnected, postmap,
                    connectStatus, fails, discReq >>
    /\ UNCHANGED << clientVars, dispVars, authVars, uploadVars, historyVars,
                    dialogVars, announced, adminVars, pingVars >>

\* a session is started and its Client receives one notification
ClassifyNext ==
    \/ \E i \in Sups : SupStart(i)
    \/ \E i \in Sups : SupLoginOk(i)
    \/ \E i \in Sups : ReceiveNotification(i)

\* handleFileAttachNotification for the ids of the payload: the channels
\* after the non-blocking sends (capacity 1) and the table after the deletes
AttachSent(ch, tbl, S) ==
    [u \in Uploads |-> IF \E a \in S : tbl[a] = u THEN 1 ELSE ch[u]]
AttachDeleted(tbl, S) == [a \in AssetIds |-> IF a \in S THEN 0 ELSE tbl[a]]

\* the receive loop of an uploading Client hands a frame that answers no
\* pending request to handleNotification: the attach notification goes to
\* handleFileAttachNotification and returns, any other builds an event for
\* the event handler
Notification(op, fid, vid) ==
    /\ notifOpcode' = op
    /\ notifIds' = << fid, vid >>
    /\ classified' = TRUE
    /\ eventType' = handleNotification(op, NoPayload)
    /\ postType' = IF eventType' \in Forwarded THEN eventType' ELSE ""
    /\ IF op = OpNotifAttach
       THEN LET S == { fid, vid } \ { 0 }
            IN  /\ waiterCh' = AttachSent(waiterCh, fileWaiters, S)
                /\ fileWaiters' = AttachDeleted(fileWaiters, S)
                /\ arrived' = arrived \cup S
       ELSE UNCHANGED << waiterCh, fileWaiters, arrived >>
    /\ UNCHANGED << upc, ukind, fileID, uret, uregistered, waited >>
    /\ UNCHANGED notifPayload
    /\ UNCHANGED << clientVars, mgrVars, dispVars, authVars, userVars,
                    historyVars, dialogVars, announced, adminVars,
                    pingVars >>

\* uploads on one Client and the notifications of its receive loop
AttachNext ==
    \/ \E u \in Uploads, kind \in {"FILE", "VIDEO"}, ok \in BOOLEAN,
          id \in 0 .. MaxAsset : UploadSlot(u, kind, ok, id)
    \/ \E u \in Uploads, ok \in BOOLEAN : UploadPost(u, ok)
    \/ \E u \in Uploads : UploadProcessed(u)
    \/ \E u \in Uploads : UploadTimeout(u)
    \/ \E op \in {OpNotifAttach, OpNotifMessage, OpNotifConfig},
          fid \in 0 .. MaxAsset, vid \in 0 .. MaxAsset :
          Notification(op, fid, vid)

\* =================================================== webhook dispatch ====
\* event.Type values built by handleNotification
EventTypes == {"Message", "ReadReceipt", "Typing", "Unknown"}

\* handleEvent: the switch passes the known types on and returns on others
Handled(t) == t \in {"Message", "ReadReceipt", "Typing"}

\* the event types a tenant can subscribe to (supportedEventTypes, in part)
SubscribableTypes == {"Message", "ReadReceipt", "Typing", "All"}

\* a bug: the subscription set is not consulted
checkIfSubscribedAlways(subs, t) == TRUE

\* checkIfSubscribedToEvent(subscribedEvents, eventType, userId)
checkIfSubscribedToEvent(subs, t) == t \in subs \/ "All" \in subs

\* no event handled, no webhook configured
DispatchIdle ==
    /\ subscriptions = {}
    /\ webhookurl = ""
    /\ produced = << >>
    /\ hooks = {}
    /\ posted = << >>
    /\ fanout = {}

\* a tenant with some subscriptions and possibly a webhook URL
DispatchInit ==
    /\ subscriptions \in SUBSET SubscribableTypes
    /\ webhookurl \in {"", "url"}
    /\ produced = << >>
    /\ hooks = {}
    /\ posted = << >>
    /\ fanout = {}

\* receiveLoop hands the next notification to handleNotification, which calls
\* handleEvent -> sendEventWithWebHook -> sendToUserWebHook synchronously;
\* with path == "" the POST is left to a new goroutine: go callHook(...);
\* then go sendToGlobalWebHook(...) and go sendToGlobalRabbit(...)
Notify(t) ==
    /\ Len(produced) < MaxEvents
    /\ produced' = Append(produced, t)
    /\ hooks' = IF /\ Handled(t)
                   /\ checkIfSubscribedToEvent(subscriptions, t)
                   /\ webhookurl # ""
                THEN hooks \cup {Len(produced) + 1}
                ELSE hooks
    /\ fanout' = IF Handled(t) /\ checkIfSubscribedToEvent(subscriptions, t)
                 THEN fanout \cup {Len(produced) + 1}
                 ELSE fanout
    /\ UNCHANGED << subscriptions, webhookurl, posted >>
    /\ UNCHANGED << clientVars, mgrVars, authVars, userVars, extVars >>

\* a callHook goroutine runs: it POSTs its event to the tenant webhook
callHook(h) ==
    /\ h \in hooks
    /\ posted' = Append(posted, h)
    /\ hooks' = hooks \ {h}
    /\ UNCHANGED << subscriptions, webhookurl, produced, fanout >>
    /\ UNCHANGED << clientVars, mgrVars, authVars, userVars, extVars >>

\* the tenant's Events are replaced in the cache (as server.Connect does with
\* the types of its Subscribe list that are supported)
SetEvents(S) ==
    /\ S # subscriptions
    /\ subscriptions' = S
    /\ UNCHANGED << webhookurl, produced, hooks, posted, fanout >>
    /\ UNCHANGED << clientVars, mgrVars, authVars, userVars, extVars >>

DispatchNext ==
    \/ \E t \in EventTypes : Notify(t)
    \/ \E h \in 1 .. MaxEvents : callHook(h)
    \/ \E S \in SUBSET SubscribableTypes : SetEvents(S)


\* ---- the admin handlers and the identity cache
\* no admin request was made; the row has no webhook and no events
AdminIdle ==
    /\ rowWebhook = ""
    /\ rowEvents = {}
    /\ accepted = "none"

\* the cache entry was filled from the row
AdminInit ==
    /\ rowWebhook = webhookurl
    /\ rowEvents = subscriptions
    /\ accepted = "none"

\* PUT /admin/users/{userid}: UPDATE users SET name, webhook, events
EditUser(webhook, events) ==
    /\ rowWebhook' = IF userRow THEN webhook ELSE rowWebhook
    /\ rowEvents' = IF userRow THEN events ELSE rowEvents
    /\ UNCHANGED accepted
    /\ UNCHANGED << clientVars, mgrVars, dispVars, authVars, userVars,
                    uploadVars, historyVars, dialogVars, classifyVars,
                    announced, pingVars >>

\* DELETE /admin/users/{userid}: a non-blocking kill offer, the channel
\* being deleted when nobody receives, then DELETE FROM users
DeleteUser ==
    /\ userRow
    /\ userRow' = FALSE
    /\ killchannel' \in (IF killchannel THEN BOOLEAN ELSE {FALSE})
    /\ UNCHANGED << spc, reconnectAttempts, cliConnected, maxClients,
                    dbConnected, postmap, connectStatus, fails, discReq >>
    /\ UNCHANGED << myClients, httpClients, cacheEntry, logoutHooks,
                    killOffers, deletes, logoutBy >>
    /\ UNCHANGED << clientVars, dispVars, authVars, extVars >>

\* authalice, for a request that carries the tenant's token: a cache hit
\* goes on to the handler, a miss looks the token up in users, fills the
\* cache from the row and goes on, or answers 401 when there is no row
authalice ==
    /\ IF cacheEntry
       THEN /\ accepted' = "next"
            /\ UNCHANGED << cacheEntry, webhookurl, subscriptions >>
       ELSE IF userRow
       THEN /\ accepted' = "next"
            /\ cacheEntry' = TRUE
            /\ webhookurl' = rowWebhook
            /\ subscriptions' = rowEvents
       ELSE /\ accepted' = "401"
            /\ UNCHANGED << cacheEntry, webhookurl, subscriptions >>
    /\ UNCHANGED << rowWebhook, rowEvents >>
    /\ UNCHANGED << produced, hooks, posted, fanout >>
    /\ UNCHANGED << myClients, httpClients, userRow, logoutHooks, killOffers,
                    deletes, logoutBy >>
    /\ UNCHANGED << clientVars, mgrVars, authVars, uploadVars, historyVars,
                    dialogVars, classifyVars, announced, pingVars >>

\* the process is started again: userinfocache is empty (connectOnStartup
\* fills it for connected tenants only) and the callHook goroutines are gone
Restart ==
    /\ cacheEntry
    /\ cacheEntry' = FALSE
    /\ hooks' = {}
    /\ UNCHANGED << subscriptions, webhookurl, produced, posted, fanout >>
    /\ UNCHANGED << myClients, httpClients, userRow, logoutHooks, killOffers,
                    deletes, logoutBy >>
    /\ UNCHANGED << clientVars, mgrVars, authVars, extVars >>

\* the admin edits and deletes the tenant while Message events are
\* dispatched and its token is used
AdminNext ==
    \/ \E webhook \in {"", "url", "url2"},
          events \in {{}, {"Message"}, {"Typing"}, {"All"}} :
          EditUser(webhook, events)
    \/ DeleteUser
    \/ authalice
    \/ Restart
    \/ Notify("Message")
    \/ \E h \in 1 .. MaxEvents : callHook(h)

\* ===================================================== SMS authentication ====
AuthIds == 1 .. MaxAuthClients

NoClient == [state |-> "none", ticket |-> "none", sent |-> << >>]

\* s.Respond(w, r, status, ...): the fields the auth responses carry
Respond(status, message) ==
    [status |-> status, message |-> message, token |-> "",
     requiresRegistration |-> "absent"]

RespondToken(message, token, requiresRegistration) ==
    [status |-> 200, message |-> message, token |-> token,
     requiresRegistration |-> requiresRegistration]

NoResponse == Respond(0, "")

\* no auth flow was started; the tenant has no stored credential
AuthIdle ==
    /\ aclients = [c \in AuthIds |-> NoClient]
    /\ regClient = 0
    /\ authTimeouts = 0
    /\ timers = [t \in AuthIds |-> "none"]
    /\ temp_token = ""
    /\ auth_token = ""
    /\ response = NoResponse
    /\ nclients = 0
    /\ sessionInit = [c \in AuthIds |-> "none"]
    /\ starting = 0

\* the same, for a tenant with or without a credential stored by an earlier
\* login
AuthInit ==
    /\ aclients = [c \in AuthIds |-> NoClient]
    /\ regClient = 0
    /\ authTimeouts = 0
    /\ timers = [t \in AuthIds |-> "none"]
    /\ temp_token = ""
    /\ auth_token \in {"", "A0"}
    /\ response = NoResponse
    /\ nclients = 0
    /\ sessionInit = [c \in AuthIds |-> "none"]
    /\ starting = 0

\* ---- inputs
IsDigit(ch) == ch \in {"0", "1", "2", "3", "4", "5", "6", "7", "8", "9"}

Rep(ch, n) == [i \in 1 .. n |-> ch]

\* phone numbers: an optional prefix, a run of digits, an optional suffix
Phones ==
    {pre \o Rep("7", n) \o suf :
        pre \in {<< >>, << "+" >>, << "+", "+" >>},
        n \in {0, 9, 10, 15, 16},
        suf \in {<< >>, << "a" >>}}

\* verification codes of 0, 5, 6 and 7 characters
Codes == {Rep("1", n) : n \in {0, 5, 6, 7}} \cup {Rep("a", 6)}

\* a bug: the length of the digit run is not checked
ValidatePhoneAnyLength(phone) ==
    LET body == IF Len(phone) > 0 /\ phone[1] = "+" THEN Tail(phone) ELSE phone
    IN  \A i \in 1 .. Len(body) : IsDigit(body[i])

\* ValidatePhone: phoneRegex = ^\+?\d{10,15}$
ValidatePhone(phone) ==
    LET body == IF Len(phone) > 0 /\ phone[1] = "+" THEN Tail(phone) ELSE phone
    IN  /\ Len(body) >= 10
        /\ Len(body) <= 15
        /\ \A i \in 1 .. Len(body) : IsDigit(body[i])

\* ---- local validation in the Client
ErrInvalidPhone == "INVALID_PHONE"
ErrInvalidCode  == "INVALID_CODE"

\* Client.RequestAuthCode(phone, language) called by goroutine r:
\* if !ValidatePhone(phone) { return "", ErrInvalidPhone }, then sendAndWait
RequestAuthCode(r, phone) ==
    /\ cpc[r] = "idle"
    /\ IF ~ValidatePhone(phone)
       THEN /\ Return(r, [resp |-> << >>, err |-> ErrInvalidPhone], FALSE)
            /\ UNCHANGED << conn, connStatus, connMu, isConnected, ctxDone,
                            seq, cseq, sent, rl, connPc, dials, closePc,
                            closeSnap >>
            /\ UNCHANGED << mgrVars, dispVars, authVars, userVars, extVars >>
       ELSE SendCheck(r)

\* Client.SubmitAuthCode(code, tempToken) called by goroutine r:
\* if len(code) != 6 { return "", "", ErrInvalidCode }, then sendAndWait
SubmitAuthCode(r, code) ==
    /\ cpc[r] = "idle"
    /\ IF Len(code) # 6
       THEN /\ Return(r, [resp |-> << >>, err |-> ErrInvalidCode], FALSE)
            /\ UNCHANGED << conn, connStatus, connMu, isConnected, ctxDone,
                            seq, cseq, sent, rl, connPc, dials, closePc,
                            closeSnap >>
            /\ UNCHANGED << mgrVars, dispVars, authVars, userVars, extVars >>
       ELSE SendCheck(r)

\* ---- the server
\* the server's answers to the auth opcode: an error frame, or a payload
\* whose tokenAttrs carries these keys
AuthReplies == SUBSET {"LOGIN", "REGISTER"} \cup {{"ERROR"}}

\* a bug: only the login token is looked for
ParseTokenAttrsLoginOnly(reply) ==
    IF "ERROR" \in reply THEN << "", "", "error" >>
    ELSE IF "LOGIN" \in reply THEN << "A", "", "" >>
    ELSE << "", "", "no_token" >>

\* Client.SubmitAuthCode after sendAndWait ("Parse tokenAttrs"):
\* << authToken, registerToken, err >>
ParseTokenAttrs(reply) ==
    IF "ERROR" \in reply THEN << "", "", "error" >>
    ELSE IF "LOGIN" \in reply THEN << "A", "", "" >>
    ELSE IF "REGISTER" \in reply THEN << "", "R", "" >>
    ELSE << "", "", "no_token" >>

\* ---- timers
\* timer.Stop(): prevents the function from running unless the timer has
\* already fired
Stop(tm, t) == IF tm[t] = "armed" THEN [tm EXCEPT ![t] = "stopped"] ELSE tm

\* if timer := authTimeouts[txtid]; timer != nil { timer.Stop() }
StopRegistered == IF authTimeouts # 0 THEN Stop(timers, authTimeouts) ELSE timers

\* the "Cancel auth timeout" block of AuthConfirm and AuthRegister
CancelTimeout ==
    /\ timers' = StopRegistered
    /\ authTimeouts' = 0

\* a request frame is written on Client c
Written(cl, c, op) == [cl EXCEPT ![c].sent = Append(@, op)]

\* ---- handlers
\* POST /session/auth/request with body.Phone = phone; env is what the
\* network and the server do: "connfail" | "initfail" | "srverr" | "ok"
AuthRequest(phone, env) ==
    /\ nclients < MaxAuthClients
    /\ IF phone = << >>
       THEN /\ response' = Respond(400, "phone number is required")
            /\ UNCHANGED << aclients, regClient, authTimeouts, timers,
                            temp_token, auth_token, nclients,
                            sessionInit >>
       ELSE LET id == nclients + 1
                out == IF env \in {"connfail", "initfail"} THEN env
                       ELSE IF ~ValidatePhone(phone) THEN "invalid"
                       ELSE env
                frames == IF out = "connfail" THEN << >>
                          ELSE IF out \in {"initfail", "invalid"}
                          THEN << "SessionInit" >>
                          ELSE << "SessionInit", "AuthRequest" >>
            IN  /\ nclients' = id
                /\ sessionInit' = [sessionInit EXCEPT ![id] =
                       IF out = "connfail" THEN "none"
                       ELSE IF out = "initfail" THEN "failed" ELSE "ok"]
                /\ IF out = "ok"
                   THEN /\ aclients' = [aclients EXCEPT ![id] =
                               [state |-> "open", ticket |-> "code",
                                sent |-> frames]]
                        /\ temp_token' = "T"
                        /\ regClient' = id
                        /\ timers' = [StopRegistered EXCEPT ![id] = "armed"]
                        /\ authTimeouts' = id
                        /\ response' = RespondToken("Verification code sent",
                                                    "T", "absent")
                        /\ UNCHANGED auth_token
                   ELSE /\ aclients' = [aclients EXCEPT ![id] =
                               [state |-> "closed", ticket |-> "none",
                                sent |-> frames]]
                        /\ response' = Respond(500, out)
                        /\ UNCHANGED << regClient, authTimeouts, timers,
                                        temp_token, auth_token >>
    /\ UNCHANGED starting
    /\ UNCHANGED << clientVars, mgrVars, dispVars, userVars, extVars >>

\* POST /session/auth/confirm with body.Code = code; reply is the server's
\* answer if the code is submitted
AuthConfirm(code, reply) ==
    /\ CancelTimeout
    /\ IF Len(code) # 6
       THEN /\ response' = Respond(400, "valid 6-digit code is required")
            /\ UNCHANGED << aclients, regClient, temp_token, auth_token >>
       ELSE IF regClient = 0
       THEN /\ response' = Respond(400, "no active auth session")
            /\ UNCHANGED << aclients, regClient, temp_token, auth_token >>
       ELSE IF aclients[regClient].state # "open"
       THEN /\ response' = Respond(400, "code verification failed")
            /\ UNCHANGED << aclients, regClient, temp_token, auth_token >>
       ELSE /\ Len(aclients[regClient].sent) < MaxAuthFrames
            /\ LET c == regClient
                   res == ParseTokenAttrs(reply)
               IN  IF res[3] # ""
                   THEN /\ aclients' = Written(aclients, c, "Auth")
                        /\ response' = Respond(400, "code verification failed")
                        /\ UNCHANGED << regClient, temp_token, auth_token >>
                   ELSE IF res[1] # ""
                   THEN /\ auth_token' = res[1]
                        /\ temp_token' = ""
                        /\ aclients' = [Written(aclients, c, "Auth") EXCEPT
                                          ![c].state = "closed",
                                          ![c].ticket = "done"]
                        /\ regClient' = 0
                        /\ response' = RespondToken("Login successful",
                                                    res[1], "false")
                   ELSE /\ temp_token' = res[2]
                        /\ aclients' = [Written(aclients, c, "Auth") EXCEPT
                                          ![c].ticket = "register"]
                        /\ response' = RespondToken("Registration required",
                                                    res[2], "true")
                        /\ UNCHANGED << regClient, auth_token >>
    /\ UNCHANGED << nclients, sessionInit, starting >>
    /\ UNCHANGED << clientVars, mgrVars, dispVars, userVars, extVars >>

\* POST /session/auth/register; named: body.FirstName is not empty;
\* reply is the server's answer: "token" | "error"
AuthRegister(named, reply) ==
    /\ CancelTimeout
    /\ IF ~named
       THEN /\ response' = Respond(400, "firstName is required")
            /\ UNCHANGED << aclients, regClient, temp_token, auth_token >>
       ELSE IF regClient = 0
       THEN /\ response' = Respond(400, "no active auth session")
            /\ UNCHANGED << aclients, regClient, temp_token, auth_token >>
       ELSE IF aclients[regClient].state # "open"
       THEN /\ response' = Respond(400, "registration failed")
            /\ UNCHANGED << aclients, regClient, temp_token, auth_token >>
       ELSE /\ Len(aclients[regClient].sent) < MaxAuthFrames
            /\ LET c == regClient
               IN  IF reply = "error"
                   THEN /\ aclients' = Written(aclients, c, "AuthConfirm")
                        /\ response' = Respond(400, "registration failed")
                        /\ UNCHANGED << regClient, temp_token, auth_token >>
                   ELSE /\ auth_token' = "A2"
                        /\ temp_token' = ""
                        /\ aclients' = [Written(aclients, c, "AuthConfirm")
                                          EXCEPT ![c].state = "closed",
                                                 ![c].ticket = "done"]
                        /\ regClient' = 0
                        /\ response' = RespondToken("Registration successful",
                                                    "A2", "absent")
    /\ UNCHANGED << nclients, sessionInit, starting >>
    /\ UNCHANGED << clientVars, mgrVars, dispVars, userVars, extVars >>

\* POST /session/connect for a tenant with a stored credential: startClient
\* registers a new Client, which connects and logs in
StartSession ==
    /\ nclients < MaxAuthClients
    /\ ~(regClient # 0 /\ aclients[regClient].state = "open")
    /\ auth_token # ""
    /\ nclients' = nclients + 1
    /\ aclients' = [aclients EXCEPT ![nclients + 1] =
                      [state |-> "open", ticket |-> "none",
                       sent |-> << "SessionInit", "Login" >>]]
    /\ regClient' = nclients + 1
    /\ sessionInit' = [sessionInit EXCEPT ![nclients + 1] = "ok"]
    /\ UNCHANGED << authTimeouts, timers, temp_token, auth_token, response,
                    starting >>
    /\ UNCHANGED << clientVars, mgrVars, dispVars, userVars, extVars >>

\* ---- startClient, one step at a time
\* cleanupClient(userID) at the end of a failed start: the tenant's entry is
\* deleted whichever Client it holds
StartFailed(cl) ==
    /\ aclients' = cl
    /\ regClient' = 0
    /\ starting' = 0

\* startClient up to ConnectAndLogin: NewClient, SetMaxClient
SessionRegister ==
    /\ nclients < MaxAuthClients
    /\ starting = 0
    /\ ~(regClient # 0 /\ aclients[regClient].state = "open")
    /\ auth_token # ""
    /\ nclients' = nclients + 1
    /\ aclients' = [aclients EXCEPT ![nclients + 1] =
                      [state |-> "new", ticket |-> "none", sent |-> << >>]]
    /\ regClient' = nclients + 1
    /\ starting' = nclients + 1
    /\ UNCHANGED << authTimeouts, timers, temp_token, auth_token, response,
                    sessionInit >>
    /\ UNCHANGED << clientVars, mgrVars, dispVars, userVars, extVars >>

\* ConnectAndLogin: c.Connect()
SessionConnect(ok) ==
    /\ starting # 0
    /\ aclients[starting].state = "new"
    /\ IF ok
       THEN /\ aclients' = [aclients EXCEPT ![starting].state = "open"]
            /\ UNCHANGED << regClient, starting >>
       ELSE StartFailed([aclients EXCEPT ![starting].state = "closed"])
    /\ UNCHANGED << authTimeouts, timers, temp_token, auth_token, response,
                    nclients, sessionInit >>
    /\ UNCHANGED << clientVars, mgrVars, dispVars, userVars, extVars >>

\* ConnectAndLogin: c.SessionInit(userAgent), c.Close() if it fails; the
\* request is not written if the Client was closed in the meantime
SessionInitStep(ok) ==
    /\ starting # 0
    /\ aclients[starting].state \in {"open", "closed"}
    /\ sessionInit[starting] = "none"
    /\ Len(aclients[starting].sent) < MaxAuthFrames
    /\ LET c == starting
           closed == [aclients EXCEPT ![c].state = "closed"]
       IN  IF aclients[c].state # "open"
           THEN /\ sessionInit' = [sessionInit EXCEPT ![c] = "failed"]
                /\ StartFailed(closed)
           ELSE IF ok
           THEN /\ sessionInit' = [sessionInit EXCEPT ![c] = "ok"]
                /\ aclients' = Written(aclients, c, "SessionInit")
                /\ UNCHANGED << regClient, starting >>
           ELSE /\ sessionInit' = [sessionInit EXCEPT ![c] = "failed"]
                /\ StartFailed(Written(closed, c, "SessionInit"))
    /\ UNCHANGED << authTimeouts, timers, temp_token, auth_token, response,
                    nclients >>
    /\ UNCHANGED << clientVars, mgrVars, dispVars, userVars, extVars >>

\* ConnectAndLogin: c.Login(authToken), c.Close() if it fails
SessionLogin(ok) ==
    /\ starting # 0
    /\ sessionInit[starting] = "ok"
    /\ Len(aclients[starting].sent) < MaxAuthFrames
    /\ LET c == starting
           closed == [aclients EXCEPT ![c].state = "closed"]
       IN  IF aclients[c].state # "open"
           THEN StartFailed(closed)
           ELSE IF ok
           THEN /\ aclients' = Written(aclients, c, "Login")
                /\ starting' = 0
                /\ UNCHANGED regClient
           ELSE StartFailed(Written(closed, c, "Login"))
    /\ UNCHANGED << authTimeouts, timers, temp_token, auth_token, response,
                    nclients, sessionInit >>
    /\ UNCHANGED << clientVars, mgrVars, dispVars, userVars, extVars >>

\* five minutes have passed: the runtime starts the timer's function in its
\* own goroutine
TimerFire(t) ==
    /\ timers[t] = "armed"
    /\ timers' = [timers EXCEPT ![t] = "fired"]
    /\ UNCHANGED << aclients, regClient, authTimeouts, temp_token, auth_token,
                    response, nclients, sessionInit, starting >>
    /\ UNCHANGED << clientVars, mgrVars, dispVars, userVars, extVars >>

\* the timer's function: if c := GetMaxClient(txtid); c != nil { c.Close();
\* DeleteMaxClient(txtid) }
TimerClose(t) ==
    /\ timers[t] = "fired"
    /\ timers' = [timers EXCEPT ![t] = "closing"]
    /\ IF regClient # 0
       THEN /\ aclients' = [aclients EXCEPT ![regClient].state = "closed"]
            /\ regClient' = 0
       ELSE UNCHANGED << aclients, regClient >>
    /\ UNCHANGED << authTimeouts, temp_token, auth_token, response, nclients,
                    sessionInit, starting >>
    /\ UNCHANGED << clientVars, mgrVars, dispVars, userVars, extVars >>

\* the timer's function: delete(authTimeouts, txtid) under authTimeoutsMu
TimerForget(t) ==
    /\ timers[t] = "closing"
    /\ timers' = [timers EXCEPT ![t] = "done"]
    /\ authTimeouts' = 0
    /\ UNCHANGED << aclients, regClient, temp_token, auth_token, response,
                    nclients, sessionInit, starting >>
    /\ UNCHANGED << clientVars, mgrVars, dispVars, userVars, extVars >>

AuthNext ==
    \/ \E phone \in Phones, env \in {"connfail", "initfail", "srverr", "ok"} :
          AuthRequest(phone, env)
    \/ \E code \in Codes, reply \in AuthReplies : AuthConfirm(code, reply)
    \/ \E named \in BOOLEAN, reply \in {"token", "error"} :
          AuthRegister(named, reply)
    \/ StartSession
    \/ \E t \in AuthIds : TimerFire(t)
    \/ \E t \in AuthIds : TimerClose(t)
    \/ \E t \in AuthIds : TimerForget(t)

\* the same handlers, with startClient's requests interleaved with them
AuthStepNext ==
    \/ \E phone \in Phones, env \in {"connfail", "initfail", "srverr", "ok"} :
          AuthRequest(phone, env)
    \/ \E code \in Codes, reply \in AuthReplies : AuthConfirm(code, reply)
    \/ \E named \in BOOLEAN, reply \in {"token", "error"} :
          AuthRegister(named, reply)
    \/ SessionRegister
    \/ \E ok \in BOOLEAN : SessionConnect(ok)
    \/ \E ok \in BOOLEAN : SessionInitStep(ok)
    \/ \E ok \in BOOLEAN : SessionLogin(ok)
    \/ \E t \in AuthIds : TimerFire(t)
    \/ \E t \in AuthIds : TimerClose(t)
    \/ \E t \in AuthIds : TimerForget(t)

\* ===================================================== specifications ====
\* one Session Client used by concurrent goroutines
\* the parts of the state beyond the tenant's row are at rest
ExtIdle ==
    /\ UploadIdle /\ HistoryIdle /\ DialogIdle /\ ClassifyIdle
    /\ AnnouncedIdle
    /\ AdminIdle
    /\ PingIdle

InitClient == ClientInit /\ ManagerInit /\ DispatchIdle /\ AuthIdle /\ ExtIdle

SpecClient ==
    /\ InitClient
    /\ [][ClientNext]_vars

\* one Session Client through connects, closes and transport failures, with
\* a single goroutine calling sendAndWait
LifecycleNext ==
    \/ ConnectBegin
    \/ ConnectDialOk
    \/ ConnectDialFail
    \/ CloseBegin
    \/ CloseLock
    \/ CloseDrain
    \/ \E k \in ConnIds : RecvTop(k)
    \/ \E k \in ConnIds : RecvResponse(k)
    \/ \E k \in ConnIds : RecvReadErr(k)
    \/ \E k \in ConnIds : TransportFail(k)
    \/ SendCheck(1)
    \/ SendRegister(1)
    \/ SendNoConn(1)
    \/ SendWrite(1)
    \/ SendWriteErr(1)
    \/ WaitRecv(1)
    \/ WaitTimeout(1)
    \/ WaitCtxDone(1)

SpecLifecycle ==
    /\ InitClient
    /\ [][LifecycleNext]_vars

\* one Client through connects, closes and transport failures, each
\* connection followed by StartPingLoop; a Connect is called when no Close
\* is under way
PingNext ==
    \/ closePc \in {"idle", "returned"} /\ ConnectBegin
    \/ ConnectDialOk
    \/ ConnectDialFail
    \/ CloseBegin
    \/ CloseLock
    \/ CloseDrain
    \/ \E k \in ConnIds : RecvTop(k)
    \/ \E k \in ConnIds : RecvReadErr(k)
    \/ \E k \in ConnIds : TransportFail(k)
    \/ StartPingLoop
    \/ \E k \in ConnIds : PingCtxDone(k)
    \/ \E k \in ConnIds : PingTick(k)

SpecPing ==
    /\ InitClient
    /\ [][PingNext]_vars

\* concurrent callers of sendAndWait on a connected Client, the write taken
\* as two steps; Connect takes the write lock, so it waits for the writers
WriteNext ==
    \/ writing = {} /\ ConnectBegin
    \/ ConnectDialOk
    \/ \E k \in ConnIds : RecvTop(k)
    \/ \E k \in ConnIds : RecvResponse(k)
    \/ \E k \in ConnIds : TransportFail(k)
    \/ \E k \in ConnIds : RecvReadErr(k)
    \/ \E r \in Callers : SendCheck(r)
    \/ \E r \in Callers : SendRegister(r)
    \/ \E r \in Callers : WriteBegin(r)
    \/ \E r \in Callers : WriteEnd(r)
    \/ \E r \in Callers : WaitRecv(r)
    \/ \E r \in Callers : WaitTimeout(r)

SpecWrite ==
    /\ InitClient
    /\ [][WriteNext]_vars

\* the same Client, its caller going through RequestAuthCode and
\* SubmitAuthCode
ValidationNext ==
    \/ LifecycleNext
    \/ \E phone \in Phones : RequestAuthCode(1, phone)
    \/ \E code \in Codes : SubmitAuthCode(1, code)

SpecValidation ==
    /\ InitClient
    /\ [][ValidationNext]_vars

\* one supervised session
InitSupervisor == ClientInit /\ BootInit /\ DispatchIdle /\ AuthIdle /\ ExtIdle

SpecSupervisor ==
    /\ InitSupervisor
    /\ [][SupervisorNext]_vars

\* the same, every startClient goroutine keeps being scheduled
SpecSupervisorFair ==
    /\ SpecSupervisor
    /\ \A i \in Sups : WF_vars(SupStep(i))

\* the tenant's sessions under connect and disconnect requests
InitManager == ClientInit /\ ManagerInit /\ DispatchIdle /\ AuthIdle /\ ExtIdle

SpecManager ==
    /\ InitManager
    /\ [][ManagerNext]_vars

\* the receive loop's events on their way to the tenant webhook
InitDispatch == ClientInit /\ ManagerInit /\ DispatchInit /\ AuthIdle /\ ExtIdle

SpecDispatch ==
    /\ InitDispatch
    /\ [][DispatchNext]_vars

\* one supervised session, the tenant logging out or being logged out
SpecLogout ==
    /\ InitSupervisor
    /\ [][LogoutNext]_vars

\* the tenant's SMS authentication and its session start
InitAuth == ClientInit /\ ManagerInit /\ DispatchIdle /\ AuthInit /\ ExtIdle

SpecAuth ==
    /\ InitAuth
    /\ [][AuthNext]_vars

\* the auth handlers and a session start whose requests interleave with them
SpecAuthFrames ==
    /\ InitAuth
    /\ [][AuthStepNext]_vars

\* a tenant whose cache entry was filled from its row, and the admin
InitAdmin ==
    /\ ClientInit /\ ManagerInit /\ DispatchInit /\ AuthIdle
    /\ UploadIdle /\ HistoryIdle /\ DialogIdle /\ ClassifyIdle
    /\ AnnouncedIdle
    /\ AdminInit
    /\ PingIdle

SpecAdmin ==
    /\ InitAdmin
    /\ [][AdminNext]_vars

\* uploads on the tenant's Client
InitUpload == ClientInit /\ ManagerInit /\ DispatchIdle /\ AuthIdle /\ ExtIdle

SpecUpload ==
    /\ InitUpload
    /\ [][UploadNext]_vars

\* the same, with the notifications going through handleNotification
SpecAttach ==
    /\ InitUpload
    /\ [][AttachNext]_vars

\* the message history of one tenant
InitHistory ==
    /\ ClientInit /\ ManagerInit /\ DispatchIdle /\ AuthIdle
    /\ UploadIdle /\ HistoryInit /\ DialogIdle /\ ClassifyIdle
    /\ AnnouncedIdle
    /\ AdminIdle
    /\ PingIdle

SpecHistory ==
    /\ InitHistory
    /\ [][HistoryNext]_vars

\* GetDialogID applied to two user ids
InitDialog ==
    /\ ClientInit /\ ManagerInit /\ DispatchIdle /\ AuthIdle
    /\ UploadIdle /\ HistoryIdle /\ DialogInit /\ ClassifyIdle
    /\ AnnouncedIdle
    /\ AdminIdle
    /\ PingIdle

SpecDialog ==
    /\ InitDialog
    /\ [][DialogCall]_vars

\* one notification on a started session
InitClassify ==
    /\ ClientInit /\ BootInit /\ DispatchIdle /\ AuthIdle
    /\ UploadIdle /\ HistoryIdle /\ DialogIdle /\ ClassifyInit
    /\ AnnouncedIdle
    /\ AdminIdle
    /\ PingIdle

SpecClassify ==
    /\ InitClassify
    /\ [][ClassifyNext]_vars

\* ------------------------------------------------------------ claims -----
\* what a returned call shows its caller
GotPayload(r)      == cresp[r] # << >>
GotTransport(r)    == cerr[r] = ErrTransport
GotTimeout(r)      == cerr[r] = ErrTimeout
GotNotConnected(r) == cerr[r] = ErrNotConnected
Outcomes(r) == {o \in {"payload", "transport", "timeout", "not_connected"} :
                  \/ o = "payload" /\ GotPayload(r)
                  \/ o = "transport" /\ GotTransport(r)
                  \/ o = "timeout" /\ GotTimeout(r)
                  \/ o = "not_connected" /\ GotNotConnected(r)}

\* C1: every sendAndWait call that has returned shows its caller exactly one
\* of {response payload, transport error, TIMEOUT, NOT_CONNECTED}: never two
\* of them and never none.
C1_ExactlyOneOutcome ==
    \A r \in Callers : cpc[r] = "done" => Cardinality(Outcomes(r)) = 1

\* C1 witness: one caller returned with a payload (with a protocol error on
\* top) while another returned NOT_CONNECTED from a drained slot.
C1_Witness ==
    \E r1, r2 \in Callers :
        /\ cpc[r1] = "done" /\ GotPayload(r1) /\ cerr[r1] = ErrProtocol
        /\ cpc[r2] = "done" /\ cseq[r2] # 0 /\ GotNotConnected(r2)

\* the receive task's read fails on a transport that broke (not one closed
\* locally) in this step
ReadFailureStep ==
    \E k \in ConnIds :
        /\ rl[k].pc = "read"
        /\ connStatus[rl[k].conn] = "failed"
        /\ rl'[k].pc = "exited"

\* C2: when the receive task's read fails on a broken transport, every call
\* outstanding at that moment is completed with NOT_CONNECTED in that same
\* step; none stays blocked.
C2_ReadFailureDrainsAll ==
    [][ReadFailureStep =>
          \A r \in Callers :
              cpc[r] = "wait" => cpc'[r] = "done" /\ cerr'[r] = ErrNotConnected]_vars

\* Close returns in this step
CloseReturnStep == closePc # "returned" /\ closePc' = "returned"

\* C3: when Close returns, every call that was registered in the pending
\* table when Close was called has been completed (it has returned, or its
\* slot was closed) and is no longer in the table, whatever state Close was
\* called in.
C3_CloseCompletesPending ==
    [][CloseReturnStep =>
          \A r \in closeSnap :
              /\ cpc'[r] = "done" \/ respCh'[r].closed
              /\ \A s \in DOMAIN pending' : pending'[s] # r]_vars

\* the calls that have been given a seq
Seqd == {r \in Callers : cseq[r] # 0}

\* C4: the seqs handed out on one Client start at 1, each is larger than
\* every seq handed out before, and no two calls hold the same seq.
C4_SeqUniqueIncreasing ==
    /\ [](\A r1, r2 \in Seqd : r1 # r2 => cseq[r1] # cseq[r2])
    /\ [](\A r \in Seqd : cseq[r] >= 1 /\ cseq[r] <= seq)
    /\ [][\A r \in Callers :
            cseq'[r] # cseq[r] =>
               /\ cseq'[r] = seq + 1
               /\ \A r2 \in Seqd : cseq'[r] > cseq[r2]]_vars

\* C4 witness: all callers hold a seq, and the seqs are 1 .. NumCallers.
C4_Witness ==
    /\ Seqd = Callers
    /\ {cseq[r] : r \in Callers} = 1 .. NumCallers

\* C5: a caller that returns a response returns the one answering its own
\* request (same seq, its own request's answer), and no response is returned
\* to two callers.
C5_RoutedBySeq ==
    /\ \A r \in Callers :
          cpc[r] = "done" /\ GotPayload(r) =>
              /\ cresp[r][1].seq = cseq[r]
              /\ cresp[r][1].payload.answerTo = r
    /\ \A r \in Callers :
          respCh[r].buf # << >> =>
              /\ respCh[r].buf[1].seq = cseq[r]
              /\ respCh[r].buf[1].payload.answerTo = r
    /\ \A r1, r2 \in Callers :
          (r1 # r2 /\ cpc[r1] = "done" /\ cpc[r2] = "done"
             /\ GotPayload(r1) /\ GotPayload(r2)) => cresp[r1] # cresp[r2]

\* C5 witness: two calls were outstanding at once and the server answered
\* the later one first: it has returned its own response while the earlier
\* one, written and not yet answered, still waits.
C5_Witness ==
    \E r1, r2 \in Callers :
        /\ cseq[r1] # 0 /\ cseq[r1] < cseq[r2]
        /\ cpc[r1] = "wait" /\ respCh[r1].buf = << >>
        /\ \E k \in ConnIds : \E f \in sent[k] : f.seq = cseq[r1]
        /\ cpc[r2] = "done" /\ GotPayload(r2)
        /\ cresp[r2][1].seq = cseq[r2]

\* startClient goroutines that hold a Session Client: started, not returned
Sessions == {i \in Sups : spc[i] \notin {"none"} \cup Exits}

\* C6: at every instant the tenant has at most one Session (a Session Client
\* that is live or being connected by a supervisor), whatever the order of
\* connect requests, disconnect requests and reconnects.
C6_AtMostOneSession == Cardinality(Sessions) <= 1

\* C7: after a disconnect is requested while a supervisor runs a session,
\* that supervisor eventually returns with connected=0 persisted and the
\* registry entries removed, and its client is never connected again,
\* whether or not the kill signal was delivered.
C7_DisconnectStopsSupervisor ==
    /\ \A i \in Sups :
          discReq[i] ~> (spc[i] \in Exits /\ ~cliConnected[i] /\ ~dbConnected
                           /\ maxClients # i)
    /\ [][\A i \in Sups :
            discReq[i] => ~(~cliConnected[i] /\ cliConnected'[i])]_vars

\* the supervisor's poll finds its client disconnected
PollDisconnected(i) ==
    /\ spc[i] = "select"
    /\ ~cliConnected[i]
    /\ spc'[i] \notin {"select", "killed"}

\* C8: when the poll finds the client disconnected and the counter becomes
\* 121, the supervisor dispatches Disconnected{max_reconnect_attempts},
\* persists connected=0, removes the registry entries and returns, and makes
\* no further attempt; when the counter becomes 1 .. 120 it goes on to
\* ConnectAndSync.
C8_GiveUpAt121 ==
    /\ [][\A i \in Sups :
            PollDisconnected(i) =>
                IF reconnectAttempts[i] + 1 = 121
                THEN /\ spc'[i] = "exit_cap"
                     /\ postmap'[i] = DisconnectedEvent
                     /\ ~dbConnected'
                     /\ maxClients' = 0 /\ ~killchannel'
                ELSE /\ reconnectAttempts[i] + 1 \in 1 .. 120
                     /\ reconnectAttempts'[i] = reconnectAttempts[i] + 1
                     /\ spc'[i] = "reconnect"]_vars
    /\ [][\A i \in Sups :
            /\ spc[i] = "exit_cap" => spc'[i] = "exit_cap" /\ ~cliConnected'[i]
            /\ spc[i] = "reconnect" /\ spc'[i] # "reconnect" =>
                  \/ cliConnected'[i] /\ fails'[i] = 0
                  \/ fails'[i] = fails[i] + 1]_vars

\* C8 witness: 120 attempts have failed and the supervisor has given up
C8_Witness ==
    \E i \in Sups :
        /\ spc[i] = "exit_cap"
        /\ fails[i] = 120
        /\ postmap[i] = DisconnectedEvent

\* C9: a supervisor that received no kill signal returns only once at least
\* 120 connection attempts in a row have failed (the counter has passed the
\* cap), whether the first failure was ConnectAndLogin or a reconnect.
C9_NoGiveUpBeforeCap ==
    \A i \in Sups :
        spc[i] \in {"exit_login", "exit_cap"} => fails[i] >= maxReconnectAttempts

\* C10: the POSTs to the tenant webhook are issued in the order in which
\* the receive loop produced their events.
C10_PostsInSourceOrder ==
    \A a, b \in 1 .. Len(posted) : a < b => posted[a] < posted[b]

\* C18: at every instant at most one receive loop of the Client is running,
\* across reconnects and across concurrent Connect and Close calls.
C18_OneReceiveTask == wg <= 1

\* Connect's dial succeeds in this step while no Close is under way
ConnectedStep ==
    /\ connPc = "dial" /\ connPc' = "idle" /\ conn' # 0
    /\ closePc \in {"idle", "returned"}

\* C19: a Connect that follows a Close succeeds like any other and leaves a
\* context that is not cancelled: whenever the Client is connected and no
\* Close is under way, the context its callers wait on is live.
C19_FreshTokenAfterReconnect ==
    /\ [](closePc \in {"idle", "returned"} /\ conn # 0 /\ isConnected
            => ~ctxDone)
    /\ [][ConnectedStep => isConnected' /\ ~ctxDone']_vars

\* C19 witness: the first transport was closed by a Close that has returned,
\* the Client is connected on its second transport, and a call written to
\* it waits on a context that is not cancelled.
C19_Witness ==
    /\ closePc = "returned" /\ connStatus[1] = "closed"
    /\ conn = 2 /\ isConnected /\ ~ctxDone
    /\ cpc[1] = "wait" /\ cctx[1] = "cur"
    /\ \E f \in sent[2] : f.seq = cseq[1]

\* sendAndWait is called by r in this step while the connected flag is false
CallWhileDisconnected(r) == cpc[r] = "idle" /\ cpc'[r] # "idle" /\ ~isConnected

\* C20: a call made while the connected flag is false returns NOT_CONNECTED
\* with no response, and nothing is sent: the seq counter, the pending table
\* and the frames written to the transports are as before.
C20_NotConnectedSendsNothing ==
    [][\A r \in Callers :
         CallWhileDisconnected(r) =>
            /\ cpc'[r] = "done"
            /\ cerr'[r] = ErrNotConnected /\ cresp'[r] = << >>
            /\ seq' = seq /\ cseq'[r] = cseq[r]
            /\ pending' = pending
            /\ sent' = sent]_vars

\* C20 witness: the Client was connected, lost its transport, and a call
\* made afterwards returned NOT_CONNECTED without consuming a seq.
C20_Witness ==
    /\ dials >= 1 /\ ~isConnected
    /\ cpc[1] = "done" /\ cerr[1] = ErrNotConnected
    /\ cseq[1] = 0 /\ seq = 0 /\ DOMAIN pending = {}

\* the receive loop hands an event of type t to the dispatcher in this step
DispatchStep(t) == produced' = Append(produced, t)

\* the event dispatched in this step is sent somewhere
SentStep == hooks' # hooks \/ fanout' # fanout

\* C11: an event is sent (to the tenant webhook, the global webhook or the
\* global queue) only if its type, or "All", is in the tenant's subscription
\* set at the time it is dispatched; a tenant subscribed to Message and
\* ReadReceipt with a webhook gets its Message events and no Typing event.
C11_SentOnlyIfSubscribed ==
    [][\A t \in EventTypes :
         DispatchStep(t) =>
            /\ SentStep => (t \in subscriptions \/ "All" \in subscriptions)
            /\ (subscriptions = {"Message", "ReadReceipt"} /\ webhookurl # "") =>
                  /\ t = "Message" => Len(produced) + 1 \in hooks'
                  /\ t = "Typing" => ~SentStep]_vars

\* C11 witness: the subscription set was changed after events had been
\* dispatched; under {Message, ReadReceipt} a Message event was sent and the
\* Typing event that followed it was dropped.
C11_Witness ==
    /\ subscriptions = {"Message", "ReadReceipt"} /\ webhookurl # ""
    /\ Len(produced) = 3
    /\ produced[1] = "Typing" /\ 1 \in fanout
    /\ produced[2] = "Message" /\ 2 \in fanout /\ 2 \in hooks
    /\ produced[3] = "Typing" /\ 3 \notin fanout /\ 3 \notin hooks

\* an auth session waits for its code: RequestAuthCode succeeded on the
\* registered Client and neither SubmitAuthCode nor Register has yet
AuthPending ==
    /\ regClient # 0
    /\ aclients[regClient].state = "open"
    /\ aclients[regClient].ticket = "code"

\* a timer is armed, or its function is about to close the registered Client
LiveTimer == \E t \in AuthIds : timers[t] \in {"armed", "fired"}

\* C12: a session opened by a successful requestCode and neither confirmed
\* nor registered is closed and removed from the registry by the timer at
\* expiry, also when a confirmCode was attempted and failed: as long as
\* such a session is open and registered, a timer that will close it is
\* armed or running.
C12_PendingSessionExpires == AuthPending => LiveTimer

ArmedTimers == {t \in AuthIds : timers[t] = "armed"}

\* the function of timer t closes and removes the registered Client
ExpiryStep(t) == timers[t] = "fired" /\ timers'[t] = "closing"

\* a requestCode later than the one that armed timer t has succeeded
LaterRequest(t) == \E u \in AuthIds : u > t /\ aclients[u].ticket # "none"

\* C13: at most one timer is armed for the tenant at any time, and the
\* expiry action of a timer never runs once a later requestCode has
\* succeeded (the later requestCode cancels it).
C13_OneTimerForLastRequest ==
    /\ [](Cardinality(ArmedTimers) <= 1)
    /\ [][\A t \in AuthIds : ExpiryStep(t) => ~LaterRequest(t)]_vars

\* confirmCode is submitted on the Client of a pending auth session and the
\* server answers with a tokenAttrs holding these keys
ConfirmStep(attrs) ==
    /\ AuthPending
    /\ \E code \in Codes : Len(code) = 6 /\ AuthConfirm(code, attrs)

\* C14: when confirmCode of a pending auth session gets a LOGIN token A, the
\* stored credential becomes A, the temp-token is cleared, the auth Client is
\* closed and removed from the registry, the timer armed by the requestCode
\* is cancelled and the response carries requiresRegistration=false and
\* authToken=A.
C14_LoginStoresCredential ==
    [][ConfirmStep({"LOGIN"}) =>
         /\ auth_token' = "A" /\ temp_token' = ""
         /\ aclients'[regClient].state = "closed"
         /\ regClient' = 0
         /\ authTimeouts' = 0 /\ timers'[regClient] # "armed"
         /\ response' = RespondToken("Login successful", "A", "false")]_vars

\* register is submitted on the Client that got a register token and the
\* server answers with token A2
RegisterStep ==
    /\ regClient # 0
    /\ aclients[regClient].state = "open"
    /\ aclients[regClient].ticket = "register"
    /\ AuthRegister(TRUE, "token")

\* C15: when confirmCode gets a REGISTER token R the response carries
\* requiresRegistration=true, the Client stays open and registered and the
\* temp-token holds R; a register on that Client that returns A2 stores A2
\* as the credential, clears the temp-token and closes and removes the Client.
C15_RegisterFlow ==
    [][/\ ConfirmStep({"REGISTER"}) =>
            /\ response' = RespondToken("Registration required", "R", "true")
            /\ regClient' = regClient
            /\ aclients'[regClient].state = "open"
            /\ temp_token' = "R"
            /\ auth_token' = auth_token
       /\ RegisterStep =>
            /\ auth_token' = "A2" /\ temp_token' = ""
            /\ aclients'[regClient].state = "closed"
            /\ regClient' = 0
            /\ response' = RespondToken("Registration successful", "A2",
                                        "absent")]_vars

\* C15 witness: a new user went through requestCode, confirmCode and
\* register on one Client.
C15_Witness ==
    /\ auth_token = "A2" /\ temp_token = "" /\ regClient = 0
    /\ response = RespondToken("Registration successful", "A2", "absent")
    /\ \E c \in AuthIds :
          /\ aclients[c].state = "closed"
          /\ aclients[c].sent =
                << "SessionInit", "AuthRequest", "Auth", "AuthConfirm" >>

\* no requestCode has succeeded on the Client confirmCode would use
NoTicket == regClient = 0 \/ aclients[regClient].ticket = "none"

\* the frames written so far, per Client
Frames(cl) == [c \in AuthIds |-> cl[c].sent]

\* C16: confirmCode with no prior requestCode on the Client it would use
\* fails with a 400 response and writes no frame, whether the registry holds
\* no Client or one registered by a session start.
C16_ConfirmNeedsRequest ==
    [][(NoTicket /\ \E code \in Codes, reply \in AuthReplies :
                       AuthConfirm(code, reply)) =>
          /\ response'.status = 400
          /\ Frames(aclients') = Frames(aclients)]_vars

\* the phones of Phones that match ^\+?\d{10,15}$
MatchingPhones ==
    {pre \o Rep("7", n) : pre \in {<< >>, << "+" >>}, n \in 10 .. 15}

\* goroutine r's call is refused with err and nothing else changes
Refused(r, err) ==
    /\ cpc'[r] = "done" /\ cerr'[r] = err /\ cresp'[r] = << >>
    /\ seq' = seq /\ cseq'[r] = cseq[r]
    /\ pending' = pending
    /\ sent' = sent

\* C17: requestCode with a phone that does not match ^\+?\d{10,15}$ returns
\* INVALID_PHONE and confirmCode with a code whose length is not 6 returns
\* INVALID_CODE; no frame is written, no seq is consumed and no pending
\* entry is created.
C17_ValidationSendsNothing ==
    [][/\ \A phone \in Phones \ MatchingPhones :
             RequestAuthCode(1, phone) => Refused(1, ErrInvalidPhone)
       /\ \A code \in Codes :
             (Len(code) # 6 /\ SubmitAuthCode(1, code)) =>
                Refused(1, ErrInvalidCode)]_vars

\* C17 witness: on a connected Client a call was refused for its phone number
\* and left the seq counter, the pending table and the transport untouched.
C17_Witness ==
    /\ isConnected /\ conn # 0 /\ connStatus[conn] = "open"
    /\ cpc[1] = "done" /\ cerr[1] = ErrInvalidPhone
    /\ seq = 0 /\ cseq[1] = 0
    /\ DOMAIN pending = {}
    /\ sent[conn] = {}

\* goroutine r's call leaves its select in this step, on a Session that is
\* connected: transport open, flag set, context not cancelled
ConnectedSelectReturn(r) ==
    /\ cpc[r] = "wait" /\ cpc'[r] = "done"
    /\ isConnected /\ ~ctxDone /\ cctx[r] = "cur"
    /\ conn # 0 /\ connStatus[conn] = "open"

\* C21: a request with timeout 0 on a connected Session returns TIMEOUT in
\* every execution, whenever the response frame arrives and whichever ready
\* case the select takes (the timer of a zero timeout is ready whenever the
\* select is evaluated).
C21_ZeroTimeoutAlwaysTimeout ==
    [][\A r \in Callers :
         ConnectedSelectReturn(r) =>
            cerr'[r] = ErrTimeout /\ cresp'[r] = << >>]_vars

\* C22: safeDeleteUser is idempotent: applied to any state the model
\* reaches, a second application changes nothing and dispatches no webhook,
\* and the state after one application has no row, no registered Client,
\* wrapper or HTTP client and no kill channel.
C22_SafeDeleteIdempotent ==
    \A w1 \in BOOLEAN, w2 \in BOOLEAN :
       LET once == safeDeleteUser(UserState, w1)
           twice == safeDeleteUser(once, w2)
       IN  /\ twice = once
           /\ ~once.row /\ ~once.kill
           /\ once.max = 0 /\ once.my = 0 /\ once.http = 0

\* C22 witness: safeDeleteUser ran twice, first for a logout notification
\* with its webhook, and again while a restarted supervisor had registered
\* its Client.
C22_Witness ==
    /\ deletes = 2 /\ logoutBy = "server" /\ logoutHooks = 1
    /\ ~userRow /\ ~killchannel
    /\ maxClients = 0 /\ myClients = 0 /\ httpClients = 0

\* the row is deleted in this step by a logout of the given origin
LogoutStep(by) == logoutBy = "none" /\ logoutBy' = by

\* goroutine i starts a reconnection attempt
AttemptStep(i) == spc[i] = "select" /\ spc'[i] = "reconnect"

\* what both kinds of logout leave behind: no row, no registry entries, the
\* registered Client closed, the kill signal offered if a kill channel exists
TornDownStep ==
    /\ ~userRow'
    /\ maxClients' = 0 /\ myClients' = 0 /\ httpClients' = 0
    /\ maxClients # 0 => ~cliConnected'[maxClients]
    /\ killchannel => killOffers' > killOffers

\* C23: a tenant-requested logout deletes the row, closes the Session Client,
\* removes the registry entries and the cache entry and offers the kill
\* signal; afterwards the supervisor makes no connection attempt.
C23_LogoutStopsSession ==
    [][/\ LogoutStep("tenant") => (TornDownStep /\ ~cacheEntry')
       /\ logoutBy = "tenant" => \A i \in Sups : ~AttemptStep(i)]_vars

\* C24: a logout notification from the server has the effects of a
\* tenant-requested logout and dispatches the LoggedOut webhook, once, with
\* the row still present; afterwards no LoggedOut webhook is dispatched and
\* the supervisor makes no connection attempt.
C24_ServerLogout ==
    [][/\ LogoutStep("server") =>
            (TornDownStep /\ logoutHooks' = logoutHooks + 1)
       /\ logoutBy = "server" =>
            /\ logoutHooks' = logoutHooks
            /\ \A i \in Sups : ~AttemptStep(i)]_vars

\* upload u returns in this step
UploadReturns(u) == upc[u] # "done" /\ upc'[u] = "done"

\* C25: an upload registers its waiter for the slot's asset id before the
\* POST; once the POST has succeeded it returns only when a notification
\* carrying that id has reached its channel or when its timer (30 s for a
\* file, 120 s for a video) has elapsed, and in both cases it returns the
\* attachment; whenever it returns, the waiter table has no entry for the id.
C25_UploadWaiter ==
    [][\A u \in Uploads :
         /\ (upc[u] = "idle" /\ upc'[u] = "post") =>
               fileWaiters'[fileID'[u]] = u
         /\ (upc[u] = "post" /\ upc'[u] # "post") => uregistered[u]
         /\ (upc[u] = "wait" /\ upc'[u] = "done") =>
               /\ uret'[u] = [err |-> "nil", type |-> ukind[u],
                              id |-> fileID[u]]
               /\ \/ waiterCh[u] = 1 /\ fileID[u] \in arrived
                  \/ waited'[u] = IF ukind[u] = "VIDEO" THEN 120 ELSE 30
         /\ (UploadReturns(u) /\ fileID[u] # 0) =>
               fileWaiters'[fileID[u]] = 0]_vars

\* C25 witness: a file upload returned its attachment after the 30 s timer,
\* a video upload returned its attachment after its notification, and the
\* waiter table is empty.
C25_Witness ==
    /\ \E u \in Uploads :
          /\ upc[u] = "done" /\ waited[u] = 30
          /\ uret[u] = Attachment("FILE", fileID[u])
    /\ \E u \in Uploads :
          /\ upc[u] = "done" /\ waited[u] = 0 /\ fileID[u] \in arrived
          /\ uret[u] = Attachment("VIDEO", fileID[u])
    /\ \A a \in AssetIds : fileWaiters[a] = 0

\* a Message event is handled in this step
MessageStep == nmessages' = nmessages + 1

\* C26: after a Message event with history limit 0 the history is unchanged;
\* with a positive limit the message's row is in the history, the event's
\* chat has at most limit rows, and no message id is stored twice.
C26_HistoryBounded ==
    [][MessageStep =>
         IF historyLimit = 0
         THEN message_history' = message_history
         ELSE /\ \E r \in message_history' :
                    r.chat = lastMessage'.chat /\ r.mid = lastMessage'.mid
              /\ Cardinality(ChatRows(message_history',
                                      lastMessage'.chat)) <= historyLimit
              /\ \A r1, r2 \in message_history' :
                    r1.mid = r2.mid => r1 = r2]_vars

\* C27: the dialog id is the XOR of the two user ids: it is the same for
\* both orders of the arguments, and its XOR with the first id is the second.
C27_DialogIdXor ==
    dialogDone =>
       /\ chatID = GetDialogID(userID2, userID1)
       /\ Xor(chatID, userID1) = userID2
       /\ Xor(chatID, userID2) = userID1

\* C27 witness: the dialog id of a negative and a positive user id, which
\* is negative and differs from both.
C27_Witness ==
    /\ dialogDone
    /\ userID1 < 0 /\ userID2 > 0
    /\ chatID < 0 /\ chatID # userID1

\* the status the classification of a message notification goes by
MessageStatus == IF notifPayload.message THEN notifPayload.inner
                 ELSE notifPayload.outer

\* the opcodes that produce a webhook event
EventOpcodes ==
    {OpNotifMessage, OpNotifMark, OpNotifChat, OpNotifTyping,
     OpNotifMsgReactionsChanged, OpNotifContact, OpNotifPresence,
     OpReconnect, OpLogout}

FirstAndTenths(n) ==
    [k \in 1 .. (IF n = 0 THEN 0 ELSE 1 + n \div 10) |->
        IF k = 1 THEN 1 ELSE 10 * (k - 1)]

\* the reconnection of goroutine i succeeds in this step
ReconnectedStep(i) == spc[i] = "reconnect" /\ cliConnected'[i]

\* C29: while a goroutine is in an outage, the Reconnecting events it has
\* dispatched are those of attempt 1 and of the multiples of 10 among the
\* attempts made, each carrying its attempt; a reconnection that succeeds on
\* attempt 3 was preceded by the one Reconnecting event of attempt 1, and
\* the Sync event with reconnect = true follows it.
C29_ReconnectingEvents ==
    /\ [](\A i \in Sups :
            spc[i] \in {"select", "reconnect"} =>
               announced[i] = FirstAndTenths(reconnectAttempts[i]))
    /\ [][\A i \in Sups :
            /\ AttemptStep(i) =>
                  IF reconnectAttempts'[i] = 1 \/ reconnectAttempts'[i] % 10 = 0
                  THEN /\ postmap'[i].type = "Reconnecting"
                       /\ postmap'[i].attempt = reconnectAttempts'[i]
                  ELSE postmap'[i] = postmap[i]
            /\ (ReconnectedStep(i) /\ reconnectAttempts[i] = 3) =>
                  /\ announced[i] = << 1 >>
                  /\ postmap[i].type = "Reconnecting"
                  /\ postmap[i].attempt = 1
                  /\ postmap'[i].type = "Sync" /\ postmap'[i].reconnect]_vars

\* C29 witness: the third attempt of an outage is under way after two
\* failed ones, the Reconnecting event of attempt 1 being the only one
\* dispatched; the outage follows one of 20 attempts or more.
C29_Witness ==
    \E i \in Sups :
       /\ spc[i] = "reconnect" /\ reconnectAttempts[i] = 3
       /\ fails[i] = 2
       /\ announced[i] = << 1 >>
       /\ postmap[i].type = "Reconnecting" /\ postmap[i].attempt = 1

\* the Client of goroutine i becomes connected in this step
SupConnectedStep(i) == ~cliConnected[i] /\ cliConnected'[i]

\* goroutine i dispatches a Sync event in this step
SyncStep(i) == postmap'[i] # postmap[i] /\ postmap'[i].type = "Sync"

\* C30: a step in which a supervised Client becomes connected dispatches a
\* Sync event, with reconnect = false for the initial login and reconnect =
\* true for a reconnection, persists connected = 1 and leaves the attempts
\* counter at 0; no other step dispatches a Sync event; and the goroutine
\* gives up only after 120 failed attempts in a row.
C30_SyncOnConnect ==
    [][\A i \in Sups :
         /\ SupConnectedStep(i) =>
               /\ SyncStep(i)
               /\ postmap'[i].reconnect = (spc[i] = "reconnect")
               /\ dbConnected'
               /\ reconnectAttempts'[i] = 0
         /\ SyncStep(i) => SupConnectedStep(i)
         /\ (spc[i] # "exit_cap" /\ spc'[i] = "exit_cap") =>
               fails[i] = 120]_vars

\* C30 witness: a goroutine that had logged in and later reconnected is
\* connected again, its last event the Sync of the reconnection.
C30_Witness ==
    \E i \in Sups :
       /\ cliConnected[i] /\ spc[i] = "select"
       /\ postmap[i].type = "Sync" /\ postmap[i].reconnect
       /\ reconnectAttempts[i] = 0 /\ dbConnected

\* ---- C31
\* the frames that need an initialised session: requestCode, confirmCode,
\* register, login, sync
NeedsSessionInit == {"AuthRequest", "Auth", "AuthConfirm", "Login", "Sync"}

\* C31: on every transport, a requestCode, confirmCode, register, login or
\* sync frame is written only after a SessionInit on that transport has
\* succeeded, and a Client whose SessionInit failed is closed
C31_SessionInitFirst ==
    \A c \in AuthIds :
        /\ \A i \in 1 .. Len(aclients[c].sent) :
              aclients[c].sent[i] \in NeedsSessionInit =>
                  /\ sessionInit[c] = "ok"
                  /\ \E j \in 1 .. (i - 1) : aclients[c].sent[j] = "SessionInit"
        /\ sessionInit[c] = "failed" => aclients[c].state = "closed"

\* ---- C32
\* caller r's sendAndWait returns in this step
ReturnStep(r) == cpc[r] # "done" /\ cpc'[r] = "done"

\* the calls that have registered a channel and not returned
Blocked == {r \in Callers : cpc[r] \in {"registered", "wait"}}

\* every entry of c.pending belongs to a call that is still blocked
PendingOnlyBlocked ==
    \A s \in DOMAIN pending : pending[s] \in Blocked /\ cseq[pending[s]] = s

\* C32: when a request returns, with any outcome, its seq is no longer in
\* c.pending and the other entries are as they were; a return with TIMEOUT
\* or with a PROTOCOL error leaves the connected flag, the transport, the
\* context, the seq counter and the receive loop as they were; c.pending
\* holds only entries of requests still blocked
C32_ReturnRemovesOwnEntry ==
    /\ []PendingOnlyBlocked
    /\ [][\A r \in Callers : ReturnStep(r) =>
            /\ DOMAIN pending' = (DOMAIN pending) \ {cseq[r]}
            /\ \A s \in DOMAIN pending' : pending'[s] = pending[s]
            /\ cerr'[r] \in {ErrTimeout, ErrProtocol} =>
                  /\ isConnected' = isConnected
                  /\ conn' = conn
                  /\ connStatus' = connStatus
                  /\ ctxDone' = ctxDone
                  /\ seq' = seq
                  /\ rl' = rl
                  /\ \A q \in Callers \ {r} :
                        /\ cpc'[q] = cpc[q]
                        /\ respCh'[q] = respCh[q]]_vars

\* caller 1 has returned with a PROTOCOL error while caller 2 is still
\* blocked with its entry registered, on a connected Client with its
\* transport open
C32_Witness ==
    /\ cpc[1] = "done"
    /\ cerr[1] = ErrProtocol
    /\ cpc[2] = "wait"
    /\ cseq[2] \in DOMAIN pending
    /\ isConnected
    /\ conn # 0
    /\ connStatus[conn] = "open"

\* ---- C33
\* the receive loop handles an attach notification in this step (every
\* other step of an upload moves the upload's position)
AttachStep == notifOpcode' = OpNotifAttach /\ upc' = upc

AuthaliceStep == accepted' # accepted \/ (cacheEntry' /\ ~cacheEntry)

\* C34: the cache entry under the tenant's token agrees with the catalog: it
\* exists only while the row exists and holds the row's webhook URL and
\* events, which are what the dispatcher uses for the next event; a request
\* with the token of a deleted tenant is answered 401
C34_CacheAgreesWithCatalog ==
    /\ [](cacheEntry =>
            /\ userRow
            /\ webhookurl = rowWebhook
            /\ subscriptions = rowEvents)
    /\ [][AuthaliceStep /\ ~userRow => accepted' = "401"]_vars

\* ---- C35
\* goroutine i supervises a Client whose receive loop has set connected to
\* false
Outage(i) == spc[i] = "select" /\ ~cliConnected[i]

\* C35: after a read failure on a supervised session, with every goroutine
\* scheduled and no kill signal received, the supervisor eventually has the
\* Client connected again with Sync{reconnect: true} dispatched, or has
\* dispatched Disconnected{max_reconnect_attempts} and returned; and a
\* disconnected Client becomes connected only by the supervisor's own
\* ConnectAndLogin or ConnectAndSync
C35_OutageEnds ==
    /\ \A i \in Sups :
          Outage(i) ~>
             \/ /\ cliConnected[i]
                /\ postmap[i] = [type |-> "Sync", reason |-> "",
                                 attempt |-> 0, reconnect |-> TRUE]
             \/ /\ spc[i] = "exit_cap"
                /\ postmap[i] = [type |-> "Disconnected",
                                 reason |-> "max_reconnect_attempts",
                                 attempt |-> 0, reconnect |-> FALSE]
             \/ spc[i] \in {"killed", "exit_kill"}
    /\ [][\A i \in Sups :
            (~cliConnected[i] /\ cliConnected'[i]) =>
               (spc[i] \in {"login", "reconnect"} /\ spc'[i] = "select")]_vars

\* the supervisor of a session whose transport failed has used up its
\* attempts, dispatched Disconnected and returned
C35_Witness ==
    /\ spc[1] = "exit_cap"
    /\ ~cliConnected[1]
    /\ reconnectAttempts[1] = maxReconnectAttempts + 1
    /\ postmap[1].type = "Disconnected"
    /\ dbConnected = FALSE

\* ---- C36
\* Client c was opened by AuthRequest and its auth flow is not finished
OpenTicket(c) ==
    aclients[c].state = "open" /\ aclients[c].ticket \in {"code", "register"}

\* C36: a Client opened by requestCode is open only while it is the
\* tenant's registered ticket; once its flow is done (login confirmed or
\* registration completed) or its timer's function has run, it is closed and
\* its timer is not armed
C36_TicketDestroyed ==
    \A c \in AuthIds :
        /\ OpenTicket(c) => regClient = c
        /\ aclients[c].ticket = "done" =>
              aclients[c].state = "closed" /\ timers[c] # "armed"
        /\ (aclients[c].ticket # "none" /\ timers[c] \in {"closing", "done"}) =>
              aclients[c].state = "closed"

\* ---- C37
\* C37: at most one ping loop of the Client is running
C37_OnePingTask ==
    Cardinality({k \in ConnIds : pingTask[k] = "run"}) <= 1

\* ---- C38
\* the function of timer t deletes the tenant's entry of authTimeouts
ForgetStep(t) == timers[t] = "closing" /\ timers'[t] = "done"

\* C38: the function of the timer armed by a requestCode leaves alone what
\* a later requestCode has made: it neither closes nor unregisters the later
\* Client, and it does not remove the later timer from authTimeouts
C38_ExpirySparesLaterRequest ==
    [][\A t \in AuthIds :
          /\ ExpiryStep(t) =>
                \A c \in AuthIds :
                   (c > t /\ aclients[c].ticket \in {"code", "register"}) =>
                      /\ aclients'[c] = aclients[c]
                      /\ regClient = c => regClient' = c
          /\ ForgetStep(t) =>
                (authTimeouts > t => authTimeouts' = authTimeouts)]_vars

\* ---- C39
\* goroutine i returns from startClient in this step, through cleanupClient
CleanupStep(i) == spc[i] \notin Exits /\ spc'[i] \in Exits

\* a session started after goroutine i's has not ended
NewerSession(i) == \E j \in Sups : j > i /\ spc[j] \notin ({"none"} \cup Exits)

\* C39: the cleanup of a terminating startClient goroutine leaves the
\* Client, the wrapper and the HTTP client registered by a newer session of
\* the tenant in the registry, and leaves the newer session's kill channel
\* in place
C39_CleanupOwnEntries ==
    [][\A i \in Sups :
          CleanupStep(i) =>
             /\ maxClients > i => maxClients' = maxClients
             /\ myClients > i => myClients' = myClients
             /\ httpClients > i => httpClients' = httpClients
             /\ (NewerSession(i) /\ killchannel) => killchannel']_vars

\* ---- C40
\* C40: at most one caller is inside the transport write at any time
C40_OneWriter == Cardinality(writing) <= 1

====
